---- MODULE Spec2Model ----
(***************************************************************************)
(* Skillora ML service: the resume/job-description match scorer            *)
(* (ml_service/analyzer.py), its skill dictionaries (ml_service/skills),   *)
(* the ATS scorer (ml_service/ats_scorer.py) and the request handler that  *)
(* drives them (ml_service/main.py).                                       *)
(*                                                                         *)
(* Texts are sequences of characters.  An ASCII character is the           *)
(* one-character string; a non-ASCII character is the string "U+XXXX" of   *)
(* its code point.  Scores are exact rationals [n |-> .., d |-> ..] in     *)
(* lowest terms.                                                           *)
(***************************************************************************)
EXTENDS Integers, Sequences, FiniteSets, TLC

(***************************************************************************)
(* Skill dictionaries                                                      *)
(***************************************************************************)
(* skills/skills_en.py: TECH_SKILLS_EN (223 terms) *)
TECH_SKILLS_EN ==
  {
    <<".","n","e","t">>, <<"a","g","i","l","e">>, <<"a","i">>, <<"a","i","r","f","l","o","w">>,
    <<"a","m","a","z","o","n"," ","w","e","b"," ","s","e","r","v","i","c","e","s">>, <<"a","n","d","r","o","i","d">>,
    <<"a","n","g","u","l","a","r">>, <<"a","n","g","u","l","a","r","j","s">>, <<"a","n","s","i","b","l","e">>,
    <<"a","p","i">>, <<"a","p","i"," ","d","e","s","i","g","n">>, <<"a","p","i","s">>,
    <<"a","p","p"," ","d","e","v","e","l","o","p","m","e","n","t">>,
    <<"a","r","c","h","i","t","e","c","t","u","r","e">>,
    <<"a","r","t","i","f","i","c","i","a","l"," ","i","n","t","e","l","l","i","g","e","n","c","e">>,
    <<"a","s","p",".","n","e","t">>, <<"a","u","t","h","e","n","t","i","c","a","t","i","o","n">>,
    <<"a","u","t","h","o","r","i","z","a","t","i","o","n">>, <<"a","w","s">>, <<"a","z","u","r","e">>,
    <<"b","a","b","e","l">>, <<"b","a","c","k","e","n","d">>,
    <<"b","a","c","k","e","n","d"," ","d","e","v","e","l","o","p","e","r">>, <<"b","a","s","h">>,
    <<"b","i","t","b","u","c","k","e","t">>, <<"b","o","o","t","s","t","r","a","p">>, <<"c">>, <<"c","#">>,
    <<"c","+","+">>, <<"c","a","s","s","a","n","d","r","a">>, <<"c","h","a","k","r","a">>, <<"c","h","e","f">>,
    <<"c","i","/","c","d">>, <<"c","i","c","d">>, <<"c","i","r","c","l","e","c","i">>,
    <<"c","l","o","u","d","f","l","a","r","e">>, <<"c","o","d","i","n","g">>,
    <<"c","o","m","m","u","n","i","c","a","t","i","o","n">>,
    <<"c","o","m","p","u","t","e","r"," ","v","i","s","i","o","n">>, <<"c","o","n","f","l","u","e","n","c","e">>,
    <<"c","o","u","c","h","d","b">>, <<"c","r","i","t","i","c","a","l"," ","t","h","i","n","k","i","n","g">>,
    <<"c","s","s">>, <<"c","s","s","3">>, <<"c","y","b","e","r","s","e","c","u","r","i","t","y">>,
    <<"c","y","p","r","e","s","s">>, <<"d","a","r","t">>, <<"d","a","t","a"," ","a","n","a","l","y","s","i","s">>,
    <<"d","a","t","a"," ","e","n","g","i","n","e","e","r","i","n","g">>,
    <<"d","a","t","a"," ","s","c","i","e","n","c","e">>, <<"d","a","t","a","b","r","i","c","k","s">>,
    <<"d","e","e","p"," ","l","e","a","r","n","i","n","g">>, <<"d","e","v","e","l","o","p","e","r">>,
    <<"d","e","v","o","p","s">>, <<"d","i","g","i","t","a","l","o","c","e","a","n">>, <<"d","j","a","n","g","o">>,
    <<"d","l">>, <<"d","o","c","k","e","r">>, <<"d","o","t","n","e","t">>, <<"d","y","n","a","m","o","d","b">>,
    <<"e","l","a","s","t","i","c">>, <<"e","l","a","s","t","i","c","s","e","a","r","c","h">>,
    <<"e","x","p","r","e","s","s">>, <<"e","x","p","r","e","s","s","j","s">>, <<"f","a","s","t","a","p","i">>,
    <<"f","a","s","t","i","f","y">>, <<"f","i","b","e","r">>, <<"f","l","a","s","k">>, <<"f","l","u","t","t","e","r">>,
    <<"f","r","o","n","t","e","n","d">>, <<"f","r","o","n","t","e","n","d"," ","d","e","v","e","l","o","p","e","r">>,
    <<"f","u","l","l"," ","s","t","a","c","k">>,
    <<"f","u","l","l"," ","s","t","a","c","k"," ","d","e","v","e","l","o","p","e","r">>,
    <<"f","u","l","l","s","t","a","c","k">>, <<"g","a","t","s","b","y">>, <<"g","c","p">>, <<"g","i","n">>,
    <<"g","i","t">>, <<"g","i","t","h","u","b">>, <<"g","i","t","h","u","b"," ","a","c","t","i","o","n","s">>,
    <<"g","i","t","l","a","b">>, <<"g","i","t","l","a","b"," ","c","i">>, <<"g","o">>, <<"g","o","l","a","n","g">>,
    <<"g","o","o","g","l","e"," ","c","l","o","u","d">>, <<"g","r","a","p","h","q","l">>, <<"h","a","d","o","o","p">>,
    <<"h","e","r","o","k","u">>, <<"h","t","m","l">>, <<"h","t","m","l","5">>, <<"h","t","t","p">>,
    <<"h","t","t","p","s">>, <<"i","o","n","i","c">>, <<"i","o","s">>, <<"j","a","v","a">>,
    <<"j","a","v","a","s","c","r","i","p","t">>, <<"j","e","n","k","i","n","s">>, <<"j","e","s","t">>,
    <<"j","i","r","a">>, <<"j","q","u","e","r","y">>, <<"j","w","t">>, <<"k","8","s">>, <<"k","a","f","k","a">>,
    <<"k","a","n","b","a","n">>, <<"k","e","r","a","s">>, <<"k","o","a">>, <<"k","o","t","l","i","n">>,
    <<"k","u","b","e","r","n","e","t","e","s">>, <<"l","a","r","a","v","e","l">>,
    <<"l","e","a","d","e","r","s","h","i","p">>, <<"l","e","s","s">>, <<"l","i","n","o","d","e">>,
    <<"l","i","n","u","x">>, <<"l","u","a">>, <<"m","a","c","h","i","n","e"," ","l","e","a","r","n","i","n","g">>,
    <<"m","a","c","o","s">>, <<"m","a","r","i","a","d","b">>, <<"m","a","t","e","r","i","a","l","-","u","i">>,
    <<"m","a","t","l","a","b">>, <<"m","i","c","r","o","s","e","r","v","i","c","e","s">>,
    <<"m","i","c","r","o","s","o","f","t"," ","a","z","u","r","e">>, <<"m","l">>, <<"m","o","b","i","l","e">>,
    <<"m","o","c","h","a">>, <<"m","o","n","g","o">>, <<"m","o","n","g","o","d","b">>,
    <<"m","o","n","g","o","o","s","e">>, <<"m","o","n","o","r","e","p","o">>, <<"m","u","i">>, <<"m","y","s","q","l">>,
    <<"n","a","t","u","r","a","l"," ","l","a","n","g","u","a","g","e"," ","p","r","o","c","e","s","s","i","n","g">>,
    <<"n","e","o","4","j">>, <<"n","e","s","t","j","s">>, <<"n","e","t","l","i","f","y">>,
    <<"n","e","t","w","o","r","k","i","n","g">>, <<"n","e","x","t",".","j","s">>, <<"n","e","x","t","j","s">>,
    <<"n","l","p">>, <<"n","o","d","e">>, <<"n","o","d","e",".","j","s">>, <<"n","o","d","e","j","s">>,
    <<"n","u","m","p","y">>, <<"n","u","x","t">>, <<"o","a","u","t","h">>,
    <<"o","b","j","e","c","t","i","v","e","-","c">>, <<"o","p","e","n","c","v">>, <<"o","r","a","c","l","e">>,
    <<"p","a","n","d","a","s">>, <<"p","e","r","l">>, <<"p","h","p">>, <<"p","l","a","y","w","r","i","g","h","t">>,
    <<"p","o","s","t","g","r","e","s">>, <<"p","o","s","t","g","r","e","s","q","l">>,
    <<"p","o","w","e","r","s","h","e","l","l">>, <<"p","r","i","s","m","a">>,
    <<"p","r","o","b","l","e","m"," ","s","o","l","v","i","n","g">>, <<"p","r","o","g","r","a","m","m","i","n","g">>,
    <<"p","r","o","j","e","c","t"," ","m","a","n","a","g","e","m","e","n","t">>, <<"p","u","p","p","e","t">>,
    <<"p","y","t","e","s","t">>, <<"p","y","t","h","o","n">>, <<"p","y","t","o","r","c","h">>, <<"r">>,
    <<"r","a","i","l","s">>, <<"r","e","a","c","t">>, <<"r","e","a","c","t"," ","n","a","t","i","v","e">>,
    <<"r","e","a","c","t",".","j","s">>, <<"r","e","a","c","t","j","s">>, <<"r","e","d","i","s">>, <<"r","e","s","t">>,
    <<"r","e","s","t"," ","a","p","i">>, <<"r","e","s","t","f","u","l">>, <<"r","u","b","y">>,
    <<"r","u","b","y"," ","o","n"," ","r","a","i","l","s">>, <<"r","u","s","t">>, <<"s","a","s","s">>,
    <<"s","c","a","l","a">>, <<"s","c","i","k","i","t","-","l","e","a","r","n">>, <<"s","c","r","u","m">>,
    <<"s","c","s","s">>, <<"s","e","c","u","r","i","t","y">>, <<"s","e","l","e","n","i","u","m">>,
    <<"s","e","n","i","o","r"," ","d","e","v","e","l","o","p","e","r">>, <<"s","e","q","u","e","l","i","z","e">>,
    <<"s","h","e","l","l">>, <<"s","k","l","e","a","r","n">>,
    <<"s","o","f","t","w","a","r","e"," ","a","r","c","h","i","t","e","c","t">>,
    <<"s","o","f","t","w","a","r","e"," ","e","n","g","i","n","e","e","r">>, <<"s","p","a","r","k">>,
    <<"s","p","r","i","n","g">>, <<"s","p","r","i","n","g"," ","b","o","o","t">>,
    <<"s","p","r","i","n","g","b","o","o","t">>, <<"s","q","l">>, <<"s","q","l","i","t","e">>, <<"s","r","e">>,
    <<"s","t","y","l","e","d","-","c","o","m","p","o","n","e","n","t","s">>, <<"s","v","e","l","t","e">>,
    <<"s","w","i","f","t">>, <<"s","y","s","t","e","m"," ","d","e","s","i","g","n">>,
    <<"t","a","i","l","w","i","n","d">>, <<"t","a","i","l","w","i","n","d","c","s","s">>, <<"t","c","p","/","i","p">>,
    <<"t","d","d">>, <<"t","e","a","m"," ","l","e","a","d">>, <<"t","e","a","m","w","o","r","k">>,
    <<"t","e","c","h"," ","l","e","a","d">>, <<"t","e","n","s","o","r","f","l","o","w">>,
    <<"t","e","r","r","a","f","o","r","m">>, <<"t","e","s","t","i","n","g">>, <<"t","r","a","v","i","s">>,
    <<"t","y","p","e","o","r","m">>, <<"t","y","p","e","s","c","r","i","p","t">>,
    <<"u","n","i","t"," ","t","e","s","t","i","n","g">>, <<"u","n","i","x">>, <<"v","e","r","c","e","l">>,
    <<"v","i","t","e">>, <<"v","u","e">>, <<"v","u","e",".","j","s">>, <<"v","u","e","j","s">>,
    <<"w","e","b","p","a","c","k">>, <<"w","e","b","s","o","c","k","e","t">>, <<"w","i","n","d","o","w","s">>,
    <<"x","a","m","a","r","i","n">>
  }

(* skills/skills_es.py: TECH_SKILLS_ES (96 terms) *)
TECH_SKILLS_ES ==
  {
    <<"a","l","m","a","c","e","n","a","m","i","e","n","t","o">>, <<"a","n","a","l","i","s","t","a">>,
    <<"a","n","U+00E1","l","i","s","i","s"," ","d","e"," ","d","a","t","o","s">>, <<"a","p","i"," ","r","e","s","t">>,
    <<"a","p","l","i","c","a","c","i","o","n","e","s"," ","m","U+00F3","v","i","l","e","s">>,
    <<"a","p","l","i","c","a","c","i","o","n","e","s"," ","w","e","b">>,
    <<"a","p","r","e","n","d","i","z","a","j","e"," ","a","u","t","o","m","U+00E1","t","i","c","o">>,
    <<"a","p","r","e","n","d","i","z","a","j","e"," ","p","r","o","f","u","n","d","o">>,
    <<"a","r","q","u","i","t","e","c","t","o"," ","d","e"," ","s","o","f","t","w","a","r","e">>,
    <<"a","u","t","e","n","t","i","c","a","c","i","U+00F3","n">>,
    <<"a","u","t","o","r","i","z","a","c","i","U+00F3","n">>, <<"b","a","c","k","e","n","d">>,
    <<"b","a","s","e"," ","d","e"," ","d","a","t","o","s">>,
    <<"b","a","s","e","s"," ","d","e"," ","d","a","t","o","s">>, <<"b","i","g"," ","d","a","t","a">>, <<"c">>,
    <<"c","#">>, <<"c","+","+">>, <<"c","i","b","e","r","s","e","g","u","r","i","d","a","d">>,
    <<"c","i","e","n","c","i","a"," ","d","e"," ","d","a","t","o","s">>,
    <<"c","o","d","i","f","i","c","a","c","i","U+00F3","n">>,
    <<"c","o","m","p","u","t","a","c","i","U+00F3","n"," ","e","n"," ","l","a"," ","n","u","b","e">>,
    <<"c","o","m","u","n","i","c","a","c","i","U+00F3","n">>, <<"c","o","n","s","u","l","t","a","s">>,
    <<"c","o","n","s","u","l","t","o","r">>, <<"c","o","n","t","e","n","e","d","o","r","e","s">>,
    <<"c","o","n","t","r","o","l"," ","d","e"," ","v","e","r","s","i","o","n","e","s">>,
    <<"c","U+00F3","d","i","g","o">>, <<"d","e","b","u","g","g","i","n","g">>,
    <<"d","e","p","u","r","a","c","i","U+00F3","n">>, <<"d","e","s","a","r","r","o","l","l","a","d","o","r">>,
    <<"d","e","s","a","r","r","o","l","l","a","d","o","r"," ","j","u","n","i","o","r">>,
    <<"d","e","s","a","r","r","o","l","l","a","d","o","r"," ","s","e","n","i","o","r">>,
    <<"d","e","s","a","r","r","o","l","l","o">>, <<"d","e","s","a","r","r","o","l","l","o"," ","w","e","b">>,
    <<"d","e","s","p","l","i","e","g","u","e"," ","c","o","n","t","i","n","u","o">>,
    <<"d","i","s","e","U+00F1","o"," ","w","e","b">>, <<"d","o","c","u","m","e","n","t","a","c","i","U+00F3","n">>,
    <<"e","n","c","r","i","p","t","a","c","i","U+00F3","n">>, <<"e","s","c","a","l","a","b","i","l","i","d","a","d">>,
    <<"e","x","p","e","r","i","e","n","c","i","a"," ","d","e"," ","u","s","u","a","r","i","o">>,
    <<"f","i","r","e","w","a","l","l">>, <<"f","r","e","e","l","a","n","c","e">>, <<"f","r","o","n","t","e","n","d">>,
    <<"g","e","s","t","i","U+00F3","n"," ","d","e"," ","p","r","o","y","e","c","t","o","s">>, <<"g","o">>,
    <<"h","a","r","d","w","a","r","e">>, <<"i","n","f","r","a","e","s","t","r","u","c","t","u","r","a">>,
    <<"i","n","g","e","n","i","e","r","o"," ","d","e"," ","s","o","f","t","w","a","r","e">>,
    <<"i","n","t","e","g","r","a","c","i","U+00F3","n"," ","c","o","n","t","i","n","u","a">>,
    <<"i","n","t","e","l","i","g","e","n","c","i","a"," ","a","r","t","i","f","i","c","i","a","l">>,
    <<"i","n","t","e","r","f","a","z"," ","d","e"," ","u","s","u","a","r","i","o">>, <<"j","a","v","a">>,
    <<"j","a","v","a","s","c","r","i","p","t">>, <<"j","e","f","e"," ","d","e"," ","p","r","o","y","e","c","t","o">>,
    <<"k","o","t","l","i","n">>, <<"l","i","d","e","r","a","z","g","o">>,
    <<"l","U+00ED","d","e","r"," ","t","U+00E9","c","n","i","c","o">>,
    <<"m","a","n","t","e","n","i","m","i","e","n","t","o">>,
    <<"m","e","t","o","d","o","l","o","g","U+00ED","a","s"," ","U+00E1","g","i","l","e","s">>,
    <<"m","i","n","e","r","U+00ED","a"," ","d","e"," ","d","a","t","o","s">>, <<"n","o","s","q","l">>,
    <<"n","u","b","e">>, <<"o","p","t","i","m","i","z","a","c","i","U+00F3","n">>,
    <<"o","r","q","u","e","s","t","a","c","i","U+00F3","n">>,
    <<"p","e","n","s","a","m","i","e","n","t","o"," ","c","r","U+00ED","t","i","c","o">>, <<"p","h","p">>,
    <<"p","r","o","c","e","s","a","m","i","e","n","t","o"," ","d","e"," ","l","e","n","g","u","a","j","e"," ","n","a","t","u","r","a","l">>,
    <<"p","r","o","g","r","a","m","a","c","i","U+00F3","n">>, <<"p","r","o","g","r","a","m","a","d","o","r">>,
    <<"p","r","u","e","b","a","s"," ","a","u","t","o","m","a","t","i","z","a","d","a","s">>,
    <<"p","r","u","e","b","a","s"," ","u","n","i","t","a","r","i","a","s">>, <<"p","y","t","h","o","n">>,
    <<"r","e","d","e","s">>, <<"r","e","d","e","s"," ","n","e","u","r","o","n","a","l","e","s">>,
    <<"r","e","n","d","i","m","i","e","n","t","o">>,
    <<"r","e","s","o","l","u","c","i","U+00F3","n"," ","d","e"," ","p","r","o","b","l","e","m","a","s">>,
    <<"r","e","s","p","o","n","s","i","v","e">>, <<"r","u","b","y">>, <<"r","u","s","t">>, <<"s","c","a","l","a">>,
    <<"s","c","r","u","m"," ","m","a","s","t","e","r">>,
    <<"s","e","g","u","r","i","d","a","d"," ","i","n","f","o","r","m","U+00E1","t","i","c","a">>,
    <<"s","e","r","v","i","c","i","o","s"," ","w","e","b">>, <<"s","e","r","v","i","d","o","r">>,
    <<"s","i","s","t","e","m","a","s"," ","o","p","e","r","a","t","i","v","o","s">>,
    <<"s","o","f","t","w","a","r","e">>, <<"s","o","p","o","r","t","e"," ","t","U+00E9","c","n","i","c","o">>,
    <<"s","q","l">>, <<"s","w","i","f","t">>,
    <<"t","e","l","e","c","o","m","u","n","i","c","a","c","i","o","n","e","s">>,
    <<"t","r","a","b","a","j","o"," ","e","n"," ","e","q","u","i","p","o">>,
    <<"t","y","p","e","s","c","r","i","p","t">>, <<"u","i">>, <<"u","x">>,
    <<"v","i","s","i","U+00F3","n"," ","p","o","r"," ","c","o","m","p","u","t","a","d","o","r","a">>
  }

(* skills/skills_fr.py: TECH_SKILLS_FR (86 terms) *)
TECH_SKILLS_FR ==
  {
    <<"a","n","a","l","y","s","e"," ","d","e"," ","d","o","n","n","U+00E9","e","s">>,
    <<"a","n","a","l","y","s","t","e">>, <<"a","p","i"," ","r","e","s","t">>,
    <<"a","p","p","l","i","c","a","t","i","o","n","s"," ","m","o","b","i","l","e","s">>,
    <<"a","p","p","l","i","c","a","t","i","o","n","s"," ","w","e","b">>,
    <<"a","p","p","r","e","n","t","i","s","s","a","g","e"," ","a","u","t","o","m","a","t","i","q","u","e">>,
    <<"a","p","p","r","e","n","t","i","s","s","a","g","e"," ","p","r","o","f","o","n","d">>,
    <<"a","r","c","h","i","t","e","c","t","e"," ","l","o","g","i","c","i","e","l">>,
    <<"a","u","t","h","e","n","t","i","f","i","c","a","t","i","o","n">>,
    <<"a","u","t","o","r","i","s","a","t","i","o","n">>,
    <<"b","a","s","e"," ","d","e"," ","d","o","n","n","U+00E9","e","s">>,
    <<"b","a","s","e","s"," ","d","e"," ","d","o","n","n","U+00E9","e","s">>, <<"c">>, <<"c","#">>, <<"c","+","+">>,
    <<"c","h","e","f"," ","d","e"," ","p","r","o","j","e","t">>, <<"c","h","i","f","f","r","e","m","e","n","t">>,
    <<"c","l","o","u","d"," ","c","o","m","p","u","t","i","n","g">>, <<"c","o","d","a","g","e">>, <<"c","o","d","e">>,
    <<"c","o","m","m","u","n","i","c","a","t","i","o","n">>,
    <<"c","o","n","c","e","p","t","i","o","n"," ","w","e","b">>, <<"c","o","n","s","u","l","t","a","n","t">>,
    <<"c","o","n","t","e","n","e","u","r","s">>,
    <<"c","o","n","t","r","U+00F4","l","e"," ","d","e"," ","v","e","r","s","i","o","n">>,
    <<"c","y","b","e","r","s","U+00E9","c","u","r","i","t","U+00E9">>,
    <<"d","o","c","u","m","e","n","t","a","t","i","o","n">>, <<"d","U+00E9","b","o","g","a","g","e">>,
    <<"d","U+00E9","p","l","o","i","e","m","e","n","t"," ","c","o","n","t","i","n","u">>,
    <<"d","U+00E9","v","e","l","o","p","p","e","m","e","n","t">>,
    <<"d","U+00E9","v","e","l","o","p","p","e","m","e","n","t"," ","w","e","b">>,
    <<"d","U+00E9","v","e","l","o","p","p","e","u","r">>,
    <<"d","U+00E9","v","e","l","o","p","p","e","u","r"," ","j","u","n","i","o","r">>,
    <<"d","U+00E9","v","e","l","o","p","p","e","u","r"," ","s","e","n","i","o","r">>,
    <<"e","x","p","l","o","r","a","t","i","o","n"," ","d","e"," ","d","o","n","n","U+00E9","e","s">>,
    <<"e","x","p","U+00E9","r","i","e","n","c","e"," ","u","t","i","l","i","s","a","t","e","u","r">>,
    <<"g","e","s","t","i","o","n"," ","d","e"," ","p","r","o","j","e","t">>, <<"g","o">>,
    <<"i","n","f","o","r","m","a","t","i","q","u","e"," ","e","n"," ","n","u","a","g","e">>,
    <<"i","n","f","r","a","s","t","r","u","c","t","u","r","e">>,
    <<"i","n","g","U+00E9","n","i","e","u","r"," ","l","o","g","i","c","i","e","l">>,
    <<"i","n","t","e","l","l","i","g","e","n","c","e"," ","a","r","t","i","f","i","c","i","e","l","l","e">>,
    <<"i","n","t","e","r","f","a","c","e"," ","u","t","i","l","i","s","a","t","e","u","r">>,
    <<"i","n","t","U+00E9","g","r","a","t","i","o","n"," ","c","o","n","t","i","n","u","e">>, <<"j","a","v","a">>,
    <<"j","a","v","a","s","c","r","i","p","t">>, <<"k","o","t","l","i","n">>,
    <<"l","e","a","d","e","r","s","h","i","p">>, <<"l","o","g","i","c","i","e","l">>,
    <<"m","a","i","n","t","e","n","a","b","i","l","i","t","U+00E9">>, <<"m","a","i","n","t","e","n","a","n","c","e">>,
    <<"m","a","t","U+00E9","r","i","e","l">>,
    <<"m","U+00E9","t","h","o","d","o","l","o","g","i","e","s"," ","a","g","i","l","e","s">>,
    <<"o","p","t","i","m","i","s","a","t","i","o","n">>, <<"o","r","c","h","e","s","t","r","a","t","i","o","n">>,
    <<"p","a","r","e","-","f","e","u">>, <<"p","e","n","s","U+00E9","e"," ","c","r","i","t","i","q","u","e">>,
    <<"p","e","r","f","o","r","m","a","n","c","e">>, <<"p","h","p">>,
    <<"p","r","o","g","r","a","m","m","a","t","i","o","n">>, <<"p","r","o","g","r","a","m","m","e","u","r">>,
    <<"p","y","t","h","o","n">>, <<"r","e","q","u","U+00EA","t","e","s">>,
    <<"r","e","s","p","o","n","s","a","b","l","e"," ","t","e","c","h","n","i","q","u","e">>, <<"r","u","b","y">>,
    <<"r","u","s","t">>, <<"r","U+00E9","s","e","a","u","x">>,
    <<"r","U+00E9","s","e","a","u","x"," ","d","e"," ","n","e","u","r","o","n","e","s">>,
    <<"r","U+00E9","s","o","l","u","t","i","o","n"," ","d","e"," ","p","r","o","b","l","U+00E8","m","e","s">>,
    <<"s","c","a","l","a">>, <<"s","c","i","e","n","c","e"," ","d","e","s"," ","d","o","n","n","U+00E9","e","s">>,
    <<"s","e","r","v","e","u","r">>, <<"s","e","r","v","i","c","e","s"," ","w","e","b">>,
    <<"s","t","o","c","k","a","g","e">>, <<"s","u","p","p","o","r","t"," ","t","e","c","h","n","i","q","u","e">>,
    <<"s","w","i","f","t">>,
    <<"s","y","s","t","U+00E8","m","e","s"," ","d","'","e","x","p","l","o","i","t","a","t","i","o","n">>,
    <<"s","U+00E9","c","u","r","i","t","U+00E9"," ","i","n","f","o","r","m","a","t","i","q","u","e">>,
    <<"t","e","s","t","s"," ","a","u","t","o","m","a","t","i","s","U+00E9","s">>,
    <<"t","e","s","t","s"," ","u","n","i","t","a","i","r","e","s">>,
    <<"t","r","a","i","t","e","m","e","n","t"," ","d","u"," ","l","a","n","g","a","g","e"," ","n","a","t","u","r","e","l">>,
    <<"t","r","a","v","a","i","l"," ","d","'","U+00E9","q","u","i","p","e">>,
    <<"t","y","p","e","s","c","r","i","p","t">>,
    <<"t","U+00E9","l","U+00E9","c","o","m","m","u","n","i","c","a","t","i","o","n","s">>,
    <<"v","i","s","i","o","n"," ","p","a","r"," ","o","r","d","i","n","a","t","e","u","r">>,
    <<"U+00E9","v","o","l","u","t","i","v","i","t","U+00E9">>
  }

(* skills/skills_de.py: TECH_SKILLS_DE (87 terms) *)
TECH_SKILLS_DE ==
  {
    <<"a","b","f","r","a","g","e","n">>, <<"a","g","i","l","e"," ","m","e","t","h","o","d","e","n">>,
    <<"a","n","a","l","y","s","t">>, <<"a","u","t","h","e","n","t","i","f","i","z","i","e","r","u","n","g">>,
    <<"a","u","t","o","m","a","t","i","s","i","e","r","t","e"," ","t","e","s","t","s">>,
    <<"a","u","t","o","r","i","s","i","e","r","u","n","g">>,
    <<"b","a","c","k","e","n","d","-","e","n","t","w","i","c","k","l","u","n","g">>,
    <<"b","e","n","u","t","z","e","r","e","r","f","a","h","r","u","n","g">>,
    <<"b","e","n","u","t","z","e","r","o","b","e","r","f","l","U+00E4","c","h","e">>, <<"b","e","r","a","t","e","r">>,
    <<"b","e","t","r","i","e","b","s","s","y","s","t","e","m","e">>, <<"c">>, <<"c","#">>, <<"c","+","+">>,
    <<"c","l","o","u","d"," ","c","o","m","p","u","t","i","n","g">>,
    <<"c","o","m","p","u","t","e","r"," ","v","i","s","i","o","n">>, <<"c","o","n","t","a","i","n","e","r">>,
    <<"c","y","b","e","r","s","i","c","h","e","r","h","e","i","t">>, <<"d","a","t","a"," ","m","i","n","i","n","g">>,
    <<"d","a","t","e","n","a","n","a","l","y","s","e">>, <<"d","a","t","e","n","b","a","n","k">>,
    <<"d","a","t","e","n","b","a","n","k","e","n">>,
    <<"d","a","t","e","n","s","p","e","i","c","h","e","r","u","n","g">>,
    <<"d","a","t","e","n","w","i","s","s","e","n","s","c","h","a","f","t">>, <<"d","e","b","u","g","g","i","n","g">>,
    <<"d","e","e","p"," ","l","e","a","r","n","i","n","g">>, <<"d","o","k","u","m","e","n","t","a","t","i","o","n">>,
    <<"e","n","t","w","i","c","k","l","e","r">>, <<"e","n","t","w","i","c","k","l","u","n","g">>,
    <<"f","e","h","l","e","r","s","u","c","h","e">>, <<"f","i","r","e","w","a","l","l">>,
    <<"f","U+00FC","h","r","u","n","g">>, <<"f","U+00FC","h","r","u","n","g","s","k","o","m","p","e","t","e","n","z">>,
    <<"g","o">>, <<"h","a","r","d","w","a","r","e">>,
    <<"i","n","f","o","r","m","a","t","i","o","n","s","s","i","c","h","e","r","h","e","i","t">>,
    <<"i","n","f","r","a","s","t","r","u","k","t","u","r">>, <<"j","a","v","a">>,
    <<"j","a","v","a","s","c","r","i","p","t">>,
    <<"j","u","n","i","o","r","-","e","n","t","w","i","c","k","l","e","r">>, <<"k","i">>,
    <<"k","o","m","m","u","n","i","k","a","t","i","o","n">>,
    <<"k","o","n","t","i","n","u","i","e","r","l","i","c","h","e"," ","b","e","r","e","i","t","s","t","e","l","l","u","n","g">>,
    <<"k","o","n","t","i","n","u","i","e","r","l","i","c","h","e"," ","i","n","t","e","g","r","a","t","i","o","n">>,
    <<"k","o","t","l","i","n">>, <<"k","r","i","t","i","s","c","h","e","s"," ","d","e","n","k","e","n">>,
    <<"k","U+00FC","n","s","t","l","i","c","h","e"," ","i","n","t","e","l","l","i","g","e","n","z">>,
    <<"l","e","i","s","t","u","n","g">>,
    <<"m","a","s","c","h","i","n","e","l","l","e","s"," ","l","e","r","n","e","n">>,
    <<"m","o","b","i","l","e"," ","a","n","w","e","n","d","u","n","g","e","n">>,
    <<"n","e","t","z","w","e","r","k","e">>, <<"n","e","u","r","o","n","a","l","e"," ","n","e","t","z","e">>,
    <<"o","p","t","i","m","i","e","r","u","n","g">>, <<"o","r","c","h","e","s","t","r","i","e","r","u","n","g">>,
    <<"p","h","p">>, <<"p","r","o","b","l","e","m","l","U+00F6","s","u","n","g">>,
    <<"p","r","o","g","r","a","m","m","i","e","r","e","r">>,
    <<"p","r","o","g","r","a","m","m","i","e","r","u","n","g">>,
    <<"p","r","o","j","e","k","t","l","e","i","t","e","r">>,
    <<"p","r","o","j","e","k","t","m","a","n","a","g","e","m","e","n","t">>, <<"p","y","t","h","o","n">>,
    <<"r","u","b","y">>, <<"r","u","s","t">>, <<"s","c","a","l","a">>,
    <<"s","e","n","i","o","r","-","e","n","t","w","i","c","k","l","e","r">>, <<"s","e","r","v","e","r">>,
    <<"s","k","a","l","i","e","r","b","a","r","k","e","i","t">>, <<"s","o","f","t","w","a","r","e">>,
    <<"s","o","f","t","w","a","r","e","a","r","c","h","i","t","e","k","t">>,
    <<"s","o","f","t","w","a","r","e","e","n","t","w","i","c","k","l","e","r">>,
    <<"s","o","f","t","w","a","r","e","e","n","t","w","i","c","k","l","u","n","g">>, <<"s","w","i","f","t">>,
    <<"t","e","a","m","a","r","b","e","i","t">>,
    <<"t","e","c","h","n","i","s","c","h","e","r"," ","l","e","i","t","e","r">>,
    <<"t","e","c","h","n","i","s","c","h","e","r"," ","s","u","p","p","o","r","t">>,
    <<"t","e","l","e","k","o","m","m","u","n","i","k","a","t","i","o","n">>,
    <<"t","y","p","e","s","c","r","i","p","t">>, <<"u","n","i","t","-","t","e","s","t","s">>,
    <<"v","e","r","a","r","b","e","i","t","u","n","g"," ","n","a","t","U+00FC","r","l","i","c","h","e","r"," ","s","p","r","a","c","h","e">>,
    <<"v","e","r","s","c","h","l","U+00FC","s","s","e","l","u","n","g">>,
    <<"v","e","r","s","i","o","n","s","k","o","n","t","r","o","l","l","e">>,
    <<"w","a","r","t","b","a","r","k","e","i","t">>, <<"w","a","r","t","u","n","g">>,
    <<"w","e","b","a","n","w","e","n","d","u","n","g","e","n">>, <<"w","e","b","d","e","s","i","g","n">>,
    <<"w","e","b","d","i","e","n","s","t","e">>, <<"w","e","b","e","n","t","w","i","c","k","l","u","n","g">>
  }

(* skills/skills_zh.py: TECH_SKILLS_ZH (101 terms) *)
TECH_SKILLS_ZH ==
  {
    <<"c">>, <<"c","#">>, <<"c","+","+">>, <<"g","o">>, <<"j","a","v","a">>,
    <<"j","a","v","a","s","c","r","i","p","t">>, <<"k","o","t","l","i","n">>, <<"p","h","p">>,
    <<"p","y","t","h","o","n">>, <<"r","u","b","y">>, <<"r","u","s","t">>, <<"s","c","a","l","a">>,
    <<"s","w","i","f","t">>, <<"t","y","p","e","s","c","r","i","p","t">>, <<"U+4E91","U+8BA1","U+7B97">>,
    <<"U+4EA7","U+54C1","U+7ECF","U+7406">>, <<"U+4EBA","U+5DE5","U+667A","U+80FD">>, <<"U+4EE3","U+7801">>,
    <<"U+4EE3","U+7801","U+5BA1","U+67E5">>, <<"U+4FE1","U+606F","U+5B89","U+5168">>,
    <<"U+5173","U+7CFB","U+578B","U+6570","U+636E","U+5E93">>, <<"U+5206","U+5E03","U+5F0F","U+7CFB","U+7EDF">>,
    <<"U+521D","U+7EA7","U+5F00","U+53D1","U+5DE5","U+7A0B","U+5E08">>, <<"U+524D","U+7AEF","U+5F00","U+53D1">>,
    <<"U+52A0","U+5BC6">>, <<"U+5355","U+5143","U+6D4B","U+8BD5">>, <<"U+53EF","U+6269","U+5C55","U+6027">>,
    <<"U+53EF","U+7EF4","U+62A4","U+6027">>, <<"U+540E","U+7AEF","U+5F00","U+53D1">>,
    <<"U+54CD","U+5E94","U+5F0F","U+8BBE","U+8BA1">>, <<"U+56E2","U+961F","U+5408","U+4F5C">>,
    <<"U+57FA","U+7840","U+8BBE","U+65BD">>, <<"U+5927","U+6570","U+636E">>, <<"U+5B89","U+5168","U+5BA1","U+8BA1">>,
    <<"U+5BB9","U+5668","U+5316">>, <<"U+5BB9","U+5668","U+7F16","U+6392">>, <<"U+5F00","U+53D1">>,
    <<"U+5F00","U+53D1","U+8005">>, <<"U+5FAE","U+670D","U+52A1">>, <<"U+6027","U+80FD","U+4F18","U+5316">>,
    <<"U+6279","U+5224","U+6027","U+601D","U+7EF4">>, <<"U+6280","U+672F","U+652F","U+6301">>,
    <<"U+6280","U+672F","U+6587","U+6863">>, <<"U+6280","U+672F","U+8D1F","U+8D23","U+4EBA">>,
    <<"U+6301","U+7EED","U+90E8","U+7F72">>, <<"U+6301","U+7EED","U+96C6","U+6210">>, <<"U+6388","U+6743">>,
    <<"U+63A5","U+53E3","U+5F00","U+53D1">>, <<"U+64CD","U+4F5C","U+7CFB","U+7EDF">>,
    <<"U+654F","U+6377","U+5F00","U+53D1">>, <<"U+6570","U+636E","U+5206","U+6790">>,
    <<"U+6570","U+636E","U+5B58","U+50A8">>, <<"U+6570","U+636E","U+5E93">>, <<"U+6570","U+636E","U+6316","U+6398">>,
    <<"U+6570","U+636E","U+79D1","U+5B66">>, <<"U+670D","U+52A1","U+5668">>, <<"U+673A","U+5668","U+5B66","U+4E60">>,
    <<"U+67B6","U+6784","U+5E08">>, <<"U+67E5","U+8BE2","U+4F18","U+5316">>, <<"U+6C9F","U+901A","U+80FD","U+529B">>,
    <<"U+6D4B","U+8BD5","U+5DE5","U+7A0B","U+5E08">>, <<"U+6DF1","U+5EA6","U+5B66","U+4E60">>,
    <<"U+7248","U+672C","U+63A7","U+5236">>, <<"U+7528","U+6237","U+4F53","U+9A8C">>,
    <<"U+7528","U+6237","U+754C","U+9762">>, <<"U+786C","U+4EF6">>, <<"U+795E","U+7ECF","U+7F51","U+7EDC">>,
    <<"U+79FB","U+52A8","U+5E94","U+7528">>, <<"U+7A0B","U+5E8F","U+5458">>, <<"U+7A0B","U+5E8F","U+8BBE","U+8BA1">>,
    <<"U+7B97","U+6CD5">>, <<"U+7CFB","U+7EDF","U+7EF4","U+62A4">>, <<"U+7F16","U+7801">>, <<"U+7F16","U+7A0B">>,
    <<"U+7F51","U+7EDC">>, <<"U+7F51","U+7EDC","U+5B89","U+5168">>, <<"U+7F51","U+9875","U+5E94","U+7528">>,
    <<"U+7F51","U+9875","U+5F00","U+53D1">>, <<"U+7F51","U+9875","U+8BBE","U+8BA1">>,
    <<"U+81EA","U+52A8","U+5316","U+6D4B","U+8BD5">>, <<"U+81EA","U+52A8","U+5316","U+8FD0","U+7EF4">>,
    <<"U+81EA","U+7136","U+8BED","U+8A00","U+5904","U+7406">>, <<"U+8BA1","U+7B97","U+673A","U+89C6","U+89C9">>,
    <<"U+8C03","U+8BD5">>, <<"U+8D1F","U+8F7D","U+5747","U+8861">>, <<"U+8EAB","U+4EFD","U+8BA4","U+8BC1">>,
    <<"U+8F6F","U+4EF6">>, <<"U+8F6F","U+4EF6","U+5DE5","U+7A0B","U+5E08">>, <<"U+8F6F","U+4EF6","U+5F00","U+53D1">>,
    <<"U+8FD0","U+7EF4">>, <<"U+8FD0","U+7EF4","U+5DE5","U+7A0B","U+5E08">>, <<"U+901A","U+4FE1">>,
    <<"U+95EE","U+9898","U+89E3","U+51B3">>, <<"U+9632","U+706B","U+5899">>, <<"U+9700","U+6C42","U+5206","U+6790">>,
    <<"U+975E","U+5173","U+7CFB","U+578B","U+6570","U+636E","U+5E93">>, <<"U+9879","U+76EE","U+7BA1","U+7406">>,
    <<"U+9879","U+76EE","U+7ECF","U+7406">>, <<"U+9886","U+5BFC","U+529B">>, <<"U+9AD8","U+5E76","U+53D1">>,
    <<"U+9AD8","U+7EA7","U+5F00","U+53D1","U+5DE5","U+7A0B","U+5E08">>
  }

(* skills/__init__.py: UNIVERSAL_SKILLS *)
UNIVERSAL_SKILLS ==
  {
    <<"a","n","g","u","l","a","r">>, <<"a","w","s">>, <<"a","z","u","r","e">>, <<"c">>, <<"c","#">>, <<"c","+","+">>,
    <<"d","j","a","n","g","o">>, <<"d","o","c","k","e","r">>, <<"e","l","a","s","t","i","c","s","e","a","r","c","h">>,
    <<"e","x","p","r","e","s","s">>, <<"f","a","s","t","a","p","i">>, <<"f","l","a","s","k">>, <<"g","c","p">>,
    <<"g","i","t">>, <<"g","i","t","h","u","b">>, <<"g","o">>, <<"j","a","v","a">>,
    <<"j","a","v","a","s","c","r","i","p","t">>, <<"k","o","t","l","i","n">>,
    <<"k","u","b","e","r","n","e","t","e","s">>, <<"m","o","n","g","o","d","b">>, <<"m","y","s","q","l">>,
    <<"n","o","d","e",".","j","s">>, <<"p","h","p">>, <<"p","o","s","t","g","r","e","s","q","l">>,
    <<"p","y","t","h","o","n">>, <<"r","e","a","c","t">>, <<"r","e","d","i","s">>, <<"r","u","b","y">>,
    <<"r","u","s","t">>, <<"s","c","a","l","a">>, <<"s","p","r","i","n","g">>, <<"s","w","i","f","t">>,
    <<"t","y","p","e","s","c","r","i","p","t">>, <<"v","u","e">>
  }

(* the "Soft Skills & Roles" line of TECH_SKILLS_EN, absent from analyzer.TECH_SKILLS *)
SOFT_SKILLS_EN ==
  {
    <<"b","a","c","k","e","n","d"," ","d","e","v","e","l","o","p","e","r">>,
    <<"c","o","m","m","u","n","i","c","a","t","i","o","n">>,
    <<"c","r","i","t","i","c","a","l"," ","t","h","i","n","k","i","n","g">>,
    <<"f","r","o","n","t","e","n","d"," ","d","e","v","e","l","o","p","e","r">>,
    <<"f","u","l","l"," ","s","t","a","c","k"," ","d","e","v","e","l","o","p","e","r">>,
    <<"l","e","a","d","e","r","s","h","i","p">>, <<"p","r","o","b","l","e","m"," ","s","o","l","v","i","n","g">>,
    <<"p","r","o","j","e","c","t"," ","m","a","n","a","g","e","m","e","n","t">>,
    <<"s","e","n","i","o","r"," ","d","e","v","e","l","o","p","e","r">>,
    <<"s","o","f","t","w","a","r","e"," ","a","r","c","h","i","t","e","c","t">>,
    <<"t","e","a","m"," ","l","e","a","d">>, <<"t","e","a","m","w","o","r","k">>,
    <<"t","e","c","h"," ","l","e","a","d">>
  }

(* non-ASCII letters of the dictionaries; every one matches \w *)
NonAsciiLetters ==
  {"U+00E1", "U+00E4", "U+00E8", "U+00E9", "U+00EA", "U+00ED", "U+00F1", "U+00F3", "U+00F4", "U+00F6", "U+00FC",
   "U+4E60", "U+4E91", "U+4EA7", "U+4EBA", "U+4EE3", "U+4EF6", "U+4EFD", "U+4F18", "U+4F53", "U+4F5C", "U+4FE1",
   "U+50A8", "U+5143", "U+5168", "U+5173", "U+51B3", "U+5206", "U+521D", "U+5224", "U+5236", "U+524D", "U+529B",
   "U+52A0", "U+52A1", "U+52A8", "U+5316", "U+5355", "U+53D1", "U+53E3", "U+53EF", "U+5408", "U+540E", "U+5458",
   "U+54C1", "U+54CD", "U+5668", "U+56E2", "U+5747", "U+578B", "U+57FA", "U+5899", "U+5904", "U+5927", "U+5B58",
   "U+5B66", "U+5B89", "U+5BA1", "U+5BB9", "U+5BC6", "U+5BFC", "U+5C55", "U+5DE5", "U+5E03", "U+5E08", "U+5E76",
   "U+5E8F", "U+5E93", "U+5E94", "U+5EA6", "U+5F00", "U+5F0F", "U+5FAE", "U+601D", "U+6027", "U+606F", "U+6210",
   "U+6237", "U+6269", "U+6279", "U+6280", "U+62A4", "U+6301", "U+6316", "U+636E", "U+6377", "U+6388", "U+6392",
   "U+6398", "U+63A5", "U+63A7", "U+64CD", "U+652F", "U+654F", "U+6570", "U+6587", "U+65BD", "U+667A", "U+670D",
   "U+672C", "U+672F", "U+673A", "U+6743", "U+6784", "U+6790", "U+67B6", "U+67E5", "U+6863", "U+6C42", "U+6C9F",
   "U+6CD5", "U+6D4B", "U+6DF1", "U+706B", "U+7136", "U+7248", "U+7406", "U+7528", "U+754C", "U+76EE", "U+7801",
   "U+7840", "U+786C", "U+795E", "U+79D1", "U+79FB", "U+7A0B", "U+7AEF", "U+7B97", "U+7BA1", "U+7CFB", "U+7EA7",
   "U+7ECF", "U+7EDC", "U+7EDF", "U+7EED", "U+7EF4", "U+7F16", "U+7F51", "U+7F72", "U+8005", "U+80FD", "U+81EA",
   "U+8861", "U+89C6", "U+89C9", "U+89E3", "U+8A00", "U+8BA1", "U+8BA4", "U+8BBE", "U+8BC1", "U+8BD5", "U+8BE2",
   "U+8BED", "U+8C03", "U+8D1F", "U+8D23", "U+8EAB", "U+8F6F", "U+8F7D", "U+8FD0", "U+901A", "U+90E8", "U+95EE",
   "U+961F", "U+9632", "U+96C6", "U+9700", "U+975E", "U+9762", "U+9875", "U+9879", "U+9886", "U+9898", "U+9A8C",
   "U+9AD8"}

(* lower-case -> upper-case for the cased non-ASCII letters *)
NonAsciiUpper ==
  ("U+00E1":>"U+00C1") @@ ("U+00E4":>"U+00C4") @@ ("U+00E8":>"U+00C8") @@ ("U+00E9":>"U+00C9") @@
  ("U+00EA":>"U+00CA") @@ ("U+00ED":>"U+00CD") @@ ("U+00F1":>"U+00D1") @@ ("U+00F3":>"U+00D3") @@
  ("U+00F4":>"U+00D4") @@ ("U+00F6":>"U+00D6") @@ ("U+00FC":>"U+00DC")
(***************************************************************************)
(* Characters: str.lower(), str.title(), \w and whitespace                 *)
(***************************************************************************)
AsciiUpperOf ==
  ("a":>"A") @@ ("b":>"B") @@ ("c":>"C") @@ ("d":>"D") @@ ("e":>"E") @@ ("f":>"F") @@ ("g":>"G") @@
  ("h":>"H") @@ ("i":>"I") @@ ("j":>"J") @@ ("k":>"K") @@ ("l":>"L") @@ ("m":>"M") @@ ("n":>"N") @@
  ("o":>"O") @@ ("p":>"P") @@ ("q":>"Q") @@ ("r":>"R") @@ ("s":>"S") @@ ("t":>"T") @@ ("u":>"U") @@
  ("v":>"V") @@ ("w":>"W") @@ ("x":>"X") @@ ("y":>"Y") @@ ("z":>"Z")

UpperOf == AsciiUpperOf @@ NonAsciiUpper

LowerLetters == DOMAIN UpperOf

UpperLetters == {UpperOf[c] : c \in LowerLetters}

LowerOf == [u \in UpperLetters |-> CHOOSE c \in LowerLetters : UpperOf[c] = u] @@ <<>>

Digits == {"0", "1", "2", "3", "4", "5", "6", "7", "8", "9"}

WordChars == LowerLetters \cup UpperLetters \cup Digits \cup {"_"} \cup NonAsciiLetters

Whitespace == {" ", "\n", "\t", "\r"}

IsWordChar(c) == c \in WordChars

IsSpace(c) == c \in Whitespace

IsCased(c) == c \in LowerLetters \/ c \in UpperLetters

LowerChar(c) == IF c \in UpperLetters THEN LowerOf[c] ELSE c

UpperChar(c) == IF c \in LowerLetters THEN UpperOf[c] ELSE c

(* f as a tuple: the same sequence, its elements evaluated once *)
AsTuple(f) == f \o <<>>

(* str.lower() *)
Lower(text) == AsTuple([i \in 1..Len(text) |-> LowerChar(text[i])])

(* str.title(): a cased character is upper-cased unless the character
   before it is cased, and then it is lower-cased *)
Title(s) ==
  AsTuple([i \in 1..Len(s) |->
             IF i > 1 /\ IsCased(s[i-1]) THEN LowerChar(s[i]) ELSE UpperChar(s[i])])

(***************************************************************************)
(* Regular-expression helpers                                              *)
(***************************************************************************)
(* the literal s occurs in t at position i *)
MatchAt(t, s, i) ==
  /\ i >= 1
  /\ i + Len(s) - 1 <= Len(t)
  /\ \A k \in 1..Len(s) : t[i + k - 1] = s[k]

(* \b holds between t[i-1] and t[i]: exactly one side is a \w character *)
WordBoundary(t, i) ==
  (i > 1 /\ IsWordChar(t[i-1])) /= (i <= Len(t) /\ IsWordChar(t[i]))

(* variant of WholeWordAt: the term found as a substring, without \b *)
SubstringAt(t, s, i) == MatchAt(t, s, i)

(* re.escape(s) matches at i with \b on both sides *)
WholeWordAt(t, s, i) ==
  /\ MatchAt(t, s, i)
  /\ WordBoundary(t, i)
  /\ WordBoundary(t, i + Len(s))

(* the terms of a dictionary that stand in t between word boundaries; index
   is the dictionary by first character.  A term can only match where its
   first character stands at a boundary, so each such position is tried
   against the terms that start with that character. *)
ByFirstChar(dict) ==
  [c \in {s[1] : s \in dict} |-> {s \in dict : s[1] = c}] @@ <<>>

WholeWordTerms(t, index) ==
  LET starts == {i \in 1..Len(t) : WordBoundary(t, i) /\ t[i] \in DOMAIN index}
  IN  UNION {{s \in index[t[i]] : WholeWordAt(t, s, i)} : i \in starts}

(* the start positions of the whitespace-separated words of t *)
WordStarts(t) ==
  {i \in 1..Len(t) : ~IsSpace(t[i]) /\ (i = 1 \/ IsSpace(t[i-1]))}

(* the last position of the word that starts at i *)
WordEnd(t, i) ==
  CHOOSE j \in i..Len(t) :
    /\ \A k \in i..j : ~IsSpace(t[k])
    /\ (j = Len(t) \/ IsSpace(t[j+1]))

(* set(t.split()) *)
SplitSet(t) == {SubSeq(t, i, WordEnd(t, i)) : i \in WordStarts(t)}

(***************************************************************************)
(* Exact rational arithmetic for the float scores                          *)
(***************************************************************************)
RECURSIVE Gcd(_, _)
Gcd(a, b) == IF b = 0 THEN a ELSE Gcd(b, a % b)

Abs(x) == IF x < 0 THEN -x ELSE x

Rat(n, d) ==
  LET g == Gcd(Abs(n), d) IN [n |-> n \div g, d |-> d \div g]

RInt(k) == [n |-> k, d |-> 1]

RAdd(a, b) == Rat(a.n * b.d + b.n * a.d, a.d * b.d)

RScale(k, a) == Rat(k * a.n, a.d)

RLe(a, b) == a.n * b.d <= b.n * a.d

RLt(a, b) == a.n * b.d < b.n * a.d

RGe(a, b) == RLe(b, a)

(* the larger of the two in place of the smaller *)
RMinLarger(a, b) == IF RLe(a, b) THEN b ELSE a

RMin(a, b) == IF RLe(a, b) THEN a ELSE b

(* the smaller of the two in place of the larger *)
RMaxSmaller(a, b) == IF RLe(a, b) THEN a ELSE b

RMax(a, b) == IF RLe(a, b) THEN b ELSE a

(***************************************************************************)
(* skills/__init__.py: the dictionary provider                             *)
(***************************************************************************)
(* skills/skills_ar.py is imported by skills/__init__.py; only the block of
   programming-language names that every dictionary opens with is assumed *)
TECH_SKILLS_AR ==
  TECH_SKILLS_EN \cap TECH_SKILLS_ES \cap TECH_SKILLS_FR \cap TECH_SKILLS_DE \cap TECH_SKILLS_ZH

LangEN == <<"e","n">>

SKILLS_BY_LANGUAGE ==
  (LangEN :> TECH_SKILLS_EN) @@ (<<"e","s">> :> TECH_SKILLS_ES) @@ (<<"f","r">> :> TECH_SKILLS_FR) @@
  (<<"d","e">> :> TECH_SKILLS_DE) @@ (<<"z","h","-","c","n">> :> TECH_SKILLS_ZH) @@ (<<"z","h","-","t","w">> :> TECH_SKILLS_ZH) @@
  (<<"a","r">> :> TECH_SKILLS_AR)

(* variant of get_skills_for_language: nothing but the universal terms for
   a code that has no dictionary *)
get_skills_no_fallback(lang_code) ==
  IF lang_code \in DOMAIN SKILLS_BY_LANGUAGE
  THEN SKILLS_BY_LANGUAGE[lang_code] \cup UNIVERSAL_SKILLS
  ELSE UNIVERSAL_SKILLS

get_skills_for_language(lang_code) ==
  LET lang_skills == IF lang_code \in DOMAIN SKILLS_BY_LANGUAGE
                     THEN SKILLS_BY_LANGUAGE[lang_code]
                     ELSE SKILLS_BY_LANGUAGE[LangEN]
  IN  lang_skills \cup UNIVERSAL_SKILLS

(***************************************************************************)
(* analyzer.py: ResumeAnalyzer                                             *)
(***************************************************************************)
(* the skills package is part of the repository, so its import succeeds *)
MULTILINGUAL_SKILLS_AVAILABLE == TRUE

(* analyzer.TECH_SKILLS, the dictionary used when the skills package is absent *)
TECH_SKILLS == TECH_SKILLS_EN \ SOFT_SKILLS_EN

get_skills_dictionary(lang_code) ==
  IF MULTILINGUAL_SKILLS_AVAILABLE THEN get_skills_for_language(lang_code) ELSE TECH_SKILLS

(* the index of every dictionary the provider returns *)
Dictionaries ==
  {get_skills_for_language(l) : l \in DOMAIN SKILLS_BY_LANGUAGE} \cup {TECH_SKILLS}

FirstCharIndex == [d \in Dictionaries |-> ByFirstChar(d)] @@ <<>>

(* set(extract_skills(text, lang_code)): the title-cased dictionary terms
   that re.search(r'\b' + re.escape(skill) + r'\b', text.lower()) finds *)
extract_skills(text, lang_code) ==
  LET text_lower  == Lower(text)
      skills_dict == get_skills_dictionary(lang_code)
      index       == IF skills_dict \in DOMAIN FirstCharIndex
                     THEN FirstCharIndex[skills_dict] ELSE ByFirstChar(skills_dict)
  IN  {Title(skill) : skill \in WholeWordTerms(text_lower, index)}

common_words ==
  { <<"t","h","e">>, <<"a">>, <<"a","n">>, <<"i","s">>, <<"a","r","e">>, <<"a","n","d">>, <<"o","r">>,
    <<"t","o">>, <<"f","o","r">>, <<"w","i","t","h">>, <<"i","n">>, <<"o","n">>, <<"o","f">>, <<"w","e">>,
    <<"y","o","u">>, <<"w","i","l","l">>, <<"b","e">>, <<"a","s">>, <<"a","t">>, <<"b","y">>,
    <<"h","a","v","e">>, <<"h","a","s">>, <<"t","h","i","s">>, <<"t","h","a","t">>, <<"o","u","r">>,
    <<"y","o","u","r">> }

(* the outcome of model.encode + cosine_similarity: it raises, or yields a
   similarity, a rational in [-1, 1]; EmbNotCalled when the call is not made *)
EmbRaises == [raises |-> TRUE, sim |-> RInt(0)]

EmbSim(n, d) == [raises |-> FALSE, sim |-> Rat(n, d)]

EmbNotCalled == [raises |-> FALSE, sim |-> RInt(0)]

(* variant of SkillScoreFallback: without the except branch of lines 211-213 *)
SkillScoreFallbackUncaught(has_model, emb) ==
  IF has_model
  THEN RAdd(RInt(30), RScale(60, emb.sim))
  ELSE RInt(50)

(* lines 203-217: skill_score when the job description has no skills;
   has_model is the truth value of self.model *)
SkillScoreFallback(has_model, emb) ==
  IF has_model
  THEN IF emb.raises THEN RInt(50) ELSE RAdd(RInt(30), RScale(60, emb.sim))
  ELSE RInt(50)

(* variant of MatchRatio: the matched skills over the resume's skills *)
MatchRatioOfResume(resume_skills, jd_skills) ==
  IF jd_skills /= {} /\ resume_skills /= {}
  THEN Rat(Cardinality(resume_skills \cap jd_skills), Cardinality(resume_skills))
  ELSE RInt(0)

(* variant of MatchRatio: the share of the job's skills the resume lacks *)
MatchRatioMissing(resume_skills, jd_skills) ==
  IF jd_skills /= {}
  THEN Rat(Cardinality(jd_skills \ resume_skills), Cardinality(jd_skills))
  ELSE RInt(0)

(* lines 196-202 *)
MatchRatio(resume_skills, jd_skills) ==
  IF jd_skills /= {}
  THEN Rat(Cardinality(resume_skills \cap jd_skills), Cardinality(jd_skills))
  ELSE RInt(0)

(* variant of SkillScore: the branch taken on the matched skills, not on jd_skills *)
SkillScoreNoMatchFallback(resume_skills, jd_skills, has_model, emb) ==
  IF resume_skills \cap jd_skills /= {}
  THEN RAdd(RInt(20), RScale(70, Rat(Cardinality(resume_skills \cap jd_skills),
                                     Cardinality(jd_skills))))
  ELSE SkillScoreFallback(has_model, emb)

SkillScore(resume_skills, jd_skills, has_model, emb) ==
  IF jd_skills /= {}
  THEN RAdd(RInt(20), RScale(70, MatchRatio(resume_skills, jd_skills)))
  ELSE SkillScoreFallback(has_model, emb)

(* lines 219-225: set(text.lower().split()) - common_words *)
Words(text) == SplitSet(Lower(text)) \ common_words

(* lines 227-230: the word-overlap bonus *)
WordBonus(resume_words, jd_words) ==
  IF jd_words /= {}
  THEN RMin(RScale(20, Rat(Cardinality(resume_words \cap jd_words), Cardinality(jd_words))),
            RInt(15))
  ELSE RInt(5)

(* variant of MatchBonus: a perfect match earns what a near-perfect one does *)
MatchBonusFlat(match_ratio) ==
  IF RGe(match_ratio, Rat(8, 10)) THEN 3 ELSE 0

(* variant of MatchBonus: the second threshold at one half *)
MatchBonusHalf(match_ratio) ==
  IF RGe(match_ratio, RInt(1)) THEN 5
  ELSE IF RGe(match_ratio, Rat(1, 2)) THEN 3
  ELSE 0

(* lines 234-238 *)
MatchBonus(match_ratio) ==
  IF RGe(match_ratio, RInt(1)) THEN 5
  ELSE IF RGe(match_ratio, Rat(8, 10)) THEN 3
  ELSE 0

(* lines 240-244 *)
CountBonus(resume_skills) ==
  IF Cardinality(resume_skills) >= 8 THEN 3
  ELSE IF Cardinality(resume_skills) >= 5 THEN 2
  ELSE 0

(* variant of Clamp100: the score returned as computed *)
Clamp100Unclamped(x) == x

(* line 248: max(0, min(100, final_score)) *)
Clamp100(x) == RMax(RInt(0), RMin(RInt(100), x))

(* lines 188-248: the local variables of calculate_semantic_similarity at its
   return statement, given the two extracted skill sets *)
similarity_locals(resume_skills, jd_skills, resume_text, job_description, has_model, emb) ==
  LET match_ratio  == MatchRatio(resume_skills, jd_skills)
      skill_score  == SkillScore(resume_skills, jd_skills, has_model, emb)
      resume_words == Words(resume_text)
      jd_words     == Words(job_description)
      word_bonus   == WordBonus(resume_words, jd_words)
      final_score  == RAdd(RAdd(skill_score, word_bonus),
                           RInt(MatchBonus(match_ratio) + CountBonus(resume_skills)))
  IN  [match_ratio  |-> match_ratio,
       skill_score  |-> skill_score,
       resume_words |-> resume_words,
       jd_words     |-> jd_words,
       word_bonus   |-> word_bonus,
       final_score  |-> Clamp100(final_score)]

calculate_semantic_similarity(resume_text, job_description, lang_code, has_model, emb) ==
  similarity_locals(extract_skills(resume_text, lang_code), extract_skills(job_description, lang_code),
                    resume_text, job_description, has_model, emb).final_score

(* variant of MissingOf: every skill of the job description *)
MissingOfAll(resume_skills, jd_skills) == {Title(skill) : skill \in jd_skills}

(* set(find_missing_keywords(...)): title() is applied once more to the
   labels of jd_skills - resume_skills *)
MissingOf(resume_skills, jd_skills) == {Title(skill) : skill \in jd_skills \ resume_skills}

find_missing_keywords(resume_text, job_description, lang_code) ==
  MissingOf(extract_skills(resume_text, lang_code), extract_skills(job_description, lang_code))
(* round(x, 1) in tenths: the nearest tenth, a tie going to the even one *)
RoundTenths(x) ==
  LET t   == (10 * x.n) \div x.d
      rem == (10 * x.n) % x.d
  IN  IF 2 * rem < x.d THEN t
      ELSE IF 2 * rem > x.d THEN t + 1
      ELSE IF t % 2 = 0 THEN t ELSE t + 1

(***************************************************************************)
(* list(set(...)): the iteration order of a set of strings is fixed by the *)
(* process's string-hash seed.  ListOf(S, seed) is one order per seed.     *)
(***************************************************************************)
RECURSIVE Canon(_)
Canon(S) == IF S = {} THEN <<>> ELSE LET x == CHOOSE x \in S : TRUE IN <<x>> \o Canon(S \ {x})

Reverse(s) == [i \in 1..Len(s) |-> s[Len(s) + 1 - i]]

Rotate(s, k) == [i \in 1..Len(s) |-> s[((i - 1 + k) % Len(s)) + 1]]

ListOf(S, seed) ==
  LET c == Canon(S)
      r == IF c = <<>> THEN c ELSE Rotate(c, seed \div 2)
  IN  IF seed % 2 = 0 THEN Reverse(r) ELSE r

(* the whole list, whatever the limit *)
TakeAll(s, k) == s

(* list[:k] *)
Take(s, k) == SubSeq(s, 1, IF Len(s) < k THEN Len(s) ELSE k)

Range(s) == {s[i] : i \in 1..Len(s)}

(***************************************************************************)
(* language_detector.py                                                    *)
(***************************************************************************)
(* variant of Strip: the text as it is *)
StripNothing(t) == t

(* text.strip() *)
Strip(t) ==
  LET first == CHOOSE i \in 1..(Len(t) + 1) :
                 /\ \A k \in 1..(i - 1) : IsSpace(t[k])
                 /\ (i = Len(t) + 1 \/ ~IsSpace(t[i]))
      last  == CHOOSE j \in 0..Len(t) :
                 /\ \A k \in (j + 1)..Len(t) : IsSpace(t[k])
                 /\ (j = 0 \/ ~IsSpace(t[j]))
  IN  IF first > Len(t) THEN <<>> ELSE SubSeq(t, first, last)

NameEnglish == <<"E","n","g","l","i","s","h">>

SUPPORTED_LANGUAGES ==
  (LangEN :> NameEnglish) @@
  (<<"e","s">> :> <<"S","p","a","n","i","s","h">>) @@
  (<<"f","r">> :> <<"F","r","e","n","c","h">>) @@
  (<<"d","e">> :> <<"G","e","r","m","a","n">>) @@
  (<<"z","h","-","c","n">> :> <<"C","h","i","n","e","s","e"," ","(","S","i","m","p","l","i","f","i","e","d",")">>) @@
  (<<"z","h","-","t","w">> :> <<"C","h","i","n","e","s","e"," ","(","T","r","a","d","i","t","i","o","n","a","l",")">>) @@
  (<<"a","r">> :> <<"A","r","a","b","i","c">>) @@
  (<<"h","i">> :> <<"H","i","n","d","i">>) @@
  (<<"p","t">> :> <<"P","o","r","t","u","g","u","e","s","e">>) @@
  (<<"r","u">> :> <<"R","u","s","s","i","a","n">>) @@
  (<<"j","a">> :> <<"J","a","p","a","n","e","s","e">>) @@
  (<<"k","o">> :> <<"K","o","r","e","a","n">>) @@
  (<<"i","t">> :> <<"I","t","a","l","i","a","n">>) @@
  (<<"n","l">> :> <<"D","u","t","c","h">>) @@
  (<<"p","l">> :> <<"P","o","l","i","s","h">>) @@
  (<<"t","r">> :> <<"T","u","r","k","i","s","h">>) @@
  (<<"v","i">> :> <<"V","i","e","t","n","a","m","e","s","e">>) @@
  (<<"t","h">> :> <<"T","h","a","i">>) @@
  (<<"i","d">> :> <<"I","n","d","o","n","e","s","i","a","n">>) @@
  (<<"s","v">> :> <<"S","w","e","d","i","s","h">>)

(* str.upper() *)
Upper(text) == [i \in 1..Len(text) |-> UpperChar(text[i])]

(* the outcome of langdetect.detect_langs: it raises, or returns a top
   candidate [lang, prob]; prob is in hundredths.  An empty list of
   candidates (kind "empty") is answered like an exception. *)
DetRaises == [kind |-> "raises", lang |-> <<>>, prob |-> 0]

DetTop(lang, prob) == [kind |-> "top", lang |-> lang, prob |-> prob]

(* variant of detect_language: the detector is asked whatever the length of
   the text *)
detect_language_any_length(text, det) ==
  IF det.kind \in {"raises", "empty"}
  THEN [code |-> LangEN, confidence |-> 0, name |-> NameEnglish]
  ELSE [code |-> det.lang, confidence |-> det.prob,
        name |-> IF det.lang \in DOMAIN SUPPORTED_LANGUAGES
                 THEN SUPPORTED_LANGUAGES[det.lang] ELSE Upper(det.lang)]

(* detect_language(text): (code, confidence in hundredths, name) *)
detect_language(text, det) ==
  IF text = <<>> \/ Len(Strip(text)) < 20
  THEN [code |-> LangEN, confidence |-> 0, name |-> NameEnglish]
  ELSE IF det.kind \in {"raises", "empty"}
  THEN [code |-> LangEN, confidence |-> 0, name |-> NameEnglish]
  ELSE LET lang_code == IF det.lang = <<"z","h","-","c","n">> \/ det.lang = <<"z","h">> THEN <<"z","h","-","c","n">> ELSE det.lang
       IN  [code |-> lang_code, confidence |-> det.prob,
            name |-> IF lang_code \in DOMAIN SUPPORTED_LANGUAGES
                     THEN SUPPORTED_LANGUAGES[lang_code] ELSE Upper(lang_code)]

is_rtl_language(lang_code) ==
  lang_code \in {<<"a","r">>, <<"h","e">>, <<"f","a">>, <<"u","r">>}

(* ResumeAnalyzer.detect_resume_language; available is
   LANGUAGE_DETECTION_AVAILABLE *)
detect_resume_language(text, available, det) ==
  IF ~available
  THEN [language_code |-> LangEN, confidence |-> 100, language_name |-> NameEnglish, is_rtl |-> FALSE]
  ELSE LET d == detect_language(text, det)
       IN  [language_code |-> d.code, confidence |-> d.confidence, language_name |-> d.name,
            is_rtl |-> is_rtl_language(d.code)]

(***************************************************************************)
(* ResumeAnalyzer._generate_feedback and analyze_text                      *)
(***************************************************************************)
(* the lowest summary whatever the score *)
SummaryLow(score) == "low"

Summary(score) ==
  IF RGe(score, RInt(80)) THEN "excellent"
  ELSE IF RGe(score, RInt(60)) THEN "good"
  ELSE IF RGe(score, RInt(40)) THEN "moderate"
  ELSE "low"

Suggestion(kind, args) == [kind |-> kind, args |-> args]

_generate_feedback(score, skills, missing, language_info) ==
  LET suggestions ==
        (IF missing /= <<>> THEN <<Suggestion("add_experience", Take(missing, 3))>> ELSE <<>>) \o
        (IF Len(skills) < 5 THEN <<Suggestion("skills_section", <<>>)>> ELSE <<>>) \o
        <<Suggestion("quantify", <<>>), Suggestion("action_verbs", <<>>)>> \o
        (IF language_info.language_code /= LangEN
         THEN <<Suggestion("english_version", <<language_info.language_name>>)>> ELSE <<>>)
  IN  [summary |-> Summary(score), suggestions |-> Take(suggestions, 4)]

(* analyze_text, lines 326-332: the detected language and the two skill
   sets that extract_skills yields under it *)
analyze_text_skills(resume_text, job_description, available, det) ==
  LET language_info == detect_resume_language(resume_text, available, det)
  IN  [language_info |-> language_info,
       resume_skills |-> extract_skills(resume_text, language_info.language_code),
       jd_skills     |-> extract_skills(job_description, language_info.language_code)]

(* the local variables of analyze_text at its return statement, with those
   of calculate_semantic_similarity; seed orders the lists built from sets *)
analyze_text_locals(x, resume_text, job_description, has_model, emb, seed) ==
  LET sim == similarity_locals(x.resume_skills, x.jd_skills, resume_text, job_description,
                               has_model, emb)
  IN  [done             |-> TRUE,
       resume_text      |-> resume_text,
       job_description  |-> job_description,
       language_info    |-> x.language_info,
       resume_skills    |-> x.resume_skills,
       jd_skills        |-> x.jd_skills,
       match_ratio      |-> sim.match_ratio,
       skill_score      |-> sim.skill_score,
       resume_words     |-> sim.resume_words,
       jd_words         |-> sim.jd_words,
       word_bonus       |-> sim.word_bonus,
       score            |-> sim.final_score,
       skills_found     |-> ListOf(x.resume_skills, seed),
       missing_keywords |-> ListOf(MissingOf(x.resume_skills, x.jd_skills), seed),
       has_model        |-> has_model,
       emb              |-> emb]

(* the dictionary analyze_text returns; score is in tenths *)
analyze_text_result(locals) ==
  [done             |-> TRUE,
   score            |-> RoundTenths(locals.score),
   skills_found     |-> Take(locals.skills_found, 10),
   missing_keywords |-> Take(locals.missing_keywords, 8),
   feedback         |-> _generate_feedback(locals.score, locals.skills_found,
                                           locals.missing_keywords, locals.language_info),
   resume_text_length |-> Len(locals.resume_text),
   language         |-> locals.language_info]

(* STANDARD_SECTIONS: the headers of each section, in source order *)
STANDARD_SECTIONS ==
  (<<"e","x","p","e","r","i","e","n","c","e">> :>
    <<<<"e","x","p","e","r","i","e","n","c","e">>,
      <<"w","o","r","k"," ","e","x","p","e","r","i","e","n","c","e">>,
      <<"p","r","o","f","e","s","s","i","o","n","a","l"," ","e","x","p","e","r","i","e","n","c","e">>,
      <<"e","m","p","l","o","y","m","e","n","t"," ","h","i","s","t","o","r","y">>,
      <<"w","o","r","k"," ","h","i","s","t","o","r","y">>,
      <<"c","a","r","e","e","r"," ","h","i","s","t","o","r","y">>,
      <<"r","e","l","e","v","a","n","t"," ","e","x","p","e","r","i","e","n","c","e">>,
      <<"p","r","o","f","e","s","s","i","o","n","a","l"," ","b","a","c","k","g","r","o","u","n","d">>>>) @@
  (<<"e","d","u","c","a","t","i","o","n">> :>
    <<<<"e","d","u","c","a","t","i","o","n">>,
      <<"a","c","a","d","e","m","i","c"," ","b","a","c","k","g","r","o","u","n","d">>,
      <<"a","c","a","d","e","m","i","c"," ","q","u","a","l","i","f","i","c","a","t","i","o","n","s">>,
      <<"e","d","u","c","a","t","i","o","n","a","l"," ","b","a","c","k","g","r","o","u","n","d">>,
      <<"q","u","a","l","i","f","i","c","a","t","i","o","n","s">>, <<"d","e","g","r","e","e","s">>>>) @@
  (<<"s","k","i","l","l","s">> :>
    <<<<"s","k","i","l","l","s">>, <<"t","e","c","h","n","i","c","a","l"," ","s","k","i","l","l","s">>,
      <<"c","o","r","e"," ","c","o","m","p","e","t","e","n","c","i","e","s">>,
      <<"k","e","y"," ","s","k","i","l","l","s">>, <<"c","o","m","p","e","t","e","n","c","i","e","s">>,
      <<"a","r","e","a","s"," ","o","f"," ","e","x","p","e","r","t","i","s","e">>,
      <<"p","r","o","f","i","c","i","e","n","c","i","e","s">>,
      <<"t","e","c","h","n","o","l","o","g","i","e","s">>>>) @@
  (<<"s","u","m","m","a","r","y">> :>
    <<<<"s","u","m","m","a","r","y">>,
      <<"p","r","o","f","e","s","s","i","o","n","a","l"," ","s","u","m","m","a","r","y">>,
      <<"c","a","r","e","e","r"," ","s","u","m","m","a","r","y">>, <<"p","r","o","f","i","l","e">>,
      <<"p","r","o","f","e","s","s","i","o","n","a","l"," ","p","r","o","f","i","l","e">>,
      <<"a","b","o","u","t"," ","m","e">>, <<"o","b","j","e","c","t","i","v","e">>,
      <<"c","a","r","e","e","r"," ","o","b","j","e","c","t","i","v","e">>>>) @@
  (<<"c","e","r","t","i","f","i","c","a","t","i","o","n","s">> :>
    <<<<"c","e","r","t","i","f","i","c","a","t","i","o","n","s">>,
      <<"c","e","r","t","i","f","i","c","a","t","e","s">>, <<"l","i","c","e","n","s","e","s">>,
      <<"p","r","o","f","e","s","s","i","o","n","a","l"," ","c","e","r","t","i","f","i","c","a","t","i","o","n","s">>,
      <<"c","r","e","d","e","n","t","i","a","l","s">>>>) @@
  (<<"p","r","o","j","e","c","t","s">> :>
    <<<<"p","r","o","j","e","c","t","s">>, <<"k","e","y"," ","p","r","o","j","e","c","t","s">>,
      <<"p","e","r","s","o","n","a","l"," ","p","r","o","j","e","c","t","s">>,
      <<"n","o","t","a","b","l","e"," ","p","r","o","j","e","c","t","s">>,
      <<"p","o","r","t","f","o","l","i","o">>>>)

ACTION_VERBS ==
  {<<"a","c","h","i","e","v","e","d">>, <<"a","d","m","i","n","i","s","t","e","r","e","d">>,
   <<"a","n","a","l","y","z","e","d">>, <<"b","u","i","l","t">>,
   <<"c","o","l","l","a","b","o","r","a","t","e","d">>, <<"c","o","n","d","u","c","t","e","d">>,
   <<"c","o","o","r","d","i","n","a","t","e","d">>, <<"c","r","e","a","t","e","d">>,
   <<"d","e","l","i","v","e","r","e","d">>, <<"d","e","s","i","g","n","e","d">>,
   <<"d","e","v","e","l","o","p","e","d">>, <<"d","i","r","e","c","t","e","d">>, <<"d","r","o","v","e">>,
   <<"e","n","g","i","n","e","e","r","e","d">>, <<"e","s","t","a","b","l","i","s","h","e","d">>,
   <<"e","x","e","c","u","t","e","d">>, <<"e","x","p","a","n","d","e","d">>,
   <<"f","a","c","i","l","i","t","a","t","e","d">>, <<"g","e","n","e","r","a","t","e","d">>,
   <<"g","r","e","w">>, <<"i","d","e","n","t","i","f","i","e","d">>,
   <<"i","m","p","l","e","m","e","n","t","e","d">>, <<"i","m","p","r","o","v","e","d">>,
   <<"i","n","c","r","e","a","s","e","d">>, <<"i","n","i","t","i","a","t","e","d">>,
   <<"i","n","t","e","g","r","a","t","e","d">>, <<"l","a","u","n","c","h","e","d">>, <<"l","e","d">>,
   <<"m","a","n","a","g","e","d">>, <<"m","e","n","t","o","r","e","d">>,
   <<"m","o","n","i","t","o","r","e","d">>, <<"n","e","g","o","t","i","a","t","e","d">>,
   <<"o","p","t","i","m","i","z","e","d">>, <<"o","r","c","h","e","s","t","r","a","t","e","d">>,
   <<"o","r","g","a","n","i","z","e","d">>, <<"o","v","e","r","s","a","w">>,
   <<"p","i","o","n","e","e","r","e","d">>, <<"p","l","a","n","n","e","d">>,
   <<"p","r","o","d","u","c","e","d">>, <<"r","e","d","e","s","i","g","n","e","d">>,
   <<"r","e","d","u","c","e","d">>, <<"r","e","f","a","c","t","o","r","e","d">>,
   <<"r","e","s","o","l","v","e","d">>, <<"r","e","v","a","m","p","e","d">>, <<"s","c","a","l","e","d">>,
   <<"s","h","i","p","p","e","d">>, <<"s","p","e","a","r","h","e","a","d","e","d">>,
   <<"s","t","r","e","a","m","l","i","n","e","d">>, <<"s","u","p","e","r","v","i","s","e","d">>,
   <<"t","r","a","n","s","f","o","r","m","e","d">>, <<"u","p","g","r","a","d","e","d">>,
   <<"u","t","i","l","i","z","e","d">>}

(* ATS_PROBLEMATIC_PATTERNS: each pattern is one character class *)
ATS_PROBLEMATIC_PATTERNS ==
  <<
   [class |-> {"U+2502", "|", "U+2503", "U+2506", "U+2507", "U+250A", "U+250B"},
    label |-> <<"t","a","b","l","e","/","p","i","p","e"," ","c","h","a","r","a","c","t","e","r","s">>],
   [class |-> {"U+2605", "U+2606", "U+25CF", "U+25C6", "U+25C7", "U+25AA", "U+25AB", "U+25BA", "U+25B8", "U+2022"},
    label |-> <<"d","e","c","o","r","a","t","i","v","e"," ","b","u","l","l","e","t"," ","s","y","m","b","o","l","s">>],
   [class |-> {"U+2500", "U+2501", "U+2550", "U+2504", "U+2505", "U+2508", "U+2509"},
    label |-> <<"b","o","x","-","d","r","a","w","i","n","g"," ","l","i","n","e"," ","c","h","a","r","a","c","t","e","r","s">>],
   [class |-> {"U+200B", "U+200C", "U+200D", "U+FEFF"},
    label |-> <<"z","e","r","o","-","w","i","d","t","h","/","i","n","v","i","s","i","b","l","e"," ","c","h","a","r","a","c","t","e","r","s">>],
   [class |-> {"U+00A9", "U+00AE", "U+2122"},
    label |-> <<"s","p","e","c","i","a","l"," ","s","y","m","b","o","l","s">>]>>

(* METRICS_PATTERN: the words of its third alternative, in source order *)
MetricUnits ==
    <<<<"u","s","e","r","s">>, <<"c","l","i","e","n","t","s">>, <<"c","u","s","t","o","m","e","r","s">>,
      <<"p","r","o","j","e","c","t","s">>, <<"t","e","a","m">>, <<"m","e","m","b","e","r","s">>,
      <<"e","n","g","i","n","e","e","r","s">>, <<"d","e","v","e","l","o","p","e","r","s">>,
      <<"p","e","o","p","l","e">>, <<"e","m","p","l","o","y","e","e","s">>, <<"r","e","p","o","r","t","s">>,
      <<"a","p","p","l","i","c","a","t","i","o","n","s">>, <<"s","e","r","v","e","r","s">>,
      <<"e","n","d","p","o","i","n","t","s">>, <<"r","e","q","u","e","s","t","s">>,
      <<"t","r","a","n","s","a","c","t","i","o","n","s">>, <<"r","e","c","o","r","d","s">>>>

(* DATE_PATTERNS: the month abbreviations *)
Months ==
    <<<<"J","a","n">>, <<"F","e","b">>, <<"M","a","r">>, <<"A","p","r">>, <<"M","a","y">>, <<"J","u","n">>,
      <<"J","u","l">>, <<"A","u","g">>, <<"S","e","p">>, <<"O","c","t">>, <<"N","o","v">>, <<"D","e","c">>>>

(* DATE_PATTERNS: [-U+2013U+2014] *)
Dashes == {"-", "U+2013", "U+2014"}
(***************************************************************************)
(* ats_scorer.py: helpers for its regular expressions                      *)
(***************************************************************************)
Min(S) == CHOOSE x \in S : \A y \in S : x <= y

(* the last position of the run of characters of class that starts at i;
   i - 1 when t[i] is not in class *)
RunEnd(t, i, class) ==
  CHOOSE j \in (i - 1)..Len(t) :
    /\ \A k \in i..j : t[k] \in class
    /\ (j = Len(t) \/ t[j + 1] \notin class)

(* the first position of the run of characters of class that ends at i *)
RunStart(t, i, class) ==
  CHOOSE j \in 1..(i + 1) :
    /\ \A k \in j..i : t[k] \in class
    /\ (j = 1 \/ t[j - 1] \notin class)

(* n characters of class stand at i *)
Exactly(t, i, n, class) ==
  /\ i + n - 1 <= Len(t)
  /\ \A k \in i..(i + n - 1) : t[k] \in class

(* s in t *)
Contains(t, s) == \E i \in 1..(Len(t) - Len(s) + 1) : MatchAt(t, s, i)

(* len(re.findall(p, t)) for a pattern that cannot match the empty string:
   ends[i] is the position after the match of p that starts at i, 0 when
   there is none; the scan resumes after each match *)
RECURSIVE CountMatches(_, _)
CountMatches(ends, from) ==
  LET rest == {i \in DOMAIN ends : i >= from /\ ends[i] > 0}
  IN  IF rest = {} THEN 0
      ELSE 1 + CountMatches(ends, ends[Min(rest)])

(* t.split(c) for a character c *)
RECURSIVE SplitAt(_, _)
SplitAt(t, c) ==
  LET at == {i \in 1..Len(t) : t[i] = c}
  IN  IF at = {} THEN <<t>>
      ELSE <<SubSeq(t, 1, Min(at) - 1)>> \o SplitAt(SubSeq(t, Min(at) + 1, Len(t)), c)

(* len(t.split()) *)
WordCount(t) == Cardinality(WordStarts(t))

AsciiLower == DOMAIN AsciiUpperOf

(* METRICS_PATTERN at i:
     \b\d+[%+xX]?\b  |  \$\d+  |  \d+\s*(?:users|clients|...)
   \d+ and \s* take their whole run: a shorter one leaves a digit or a blank
   where the pattern wants something else *)
MetricsEnd(t, i) ==
  IF t[i] \in Digits
  THEN LET d == RunEnd(t, i, Digits)
           w == RunEnd(t, d + 1, Whitespace)
           units == {k \in 1..Len(MetricUnits) : MatchAt(t, MetricUnits[k], w + 1)}
       IN  IF /\ WordBoundary(t, i)
              /\ d + 1 <= Len(t) /\ t[d + 1] \in {"%", "+", "x", "X"}
              /\ WordBoundary(t, d + 2)
           THEN d + 2
           ELSE IF WordBoundary(t, i) /\ WordBoundary(t, d + 1) THEN d + 1
           ELSE IF units /= {} THEN w + 1 + Len(MetricUnits[Min(units)])
           ELSE 0
  ELSE IF t[i] = "$" /\ i + 1 <= Len(t) /\ t[i + 1] \in Digits
  THEN RunEnd(t, i + 1, Digits) + 1
  ELSE 0

(* len(re.findall(METRICS_PATTERN, t)) *)
MetricsCount(t) ==
  LET ends == [i \in {i \in 1..Len(t) : t[i] \in Digits \cup {"$"}} |-> MetricsEnd(t, i)] @@ <<>>
  IN  CountMatches(ends, 1)

(* (?:Jan|...|Dec)[a-z]*\.?\s+\d{4} at i: the position after it, or 0 *)
MonthYearEnd(t, i) ==
  IF \E k \in 1..Len(Months) : MatchAt(t, Months[k], i)
  THEN LET l == RunEnd(t, i + 3, AsciiLower)
           p == IF l + 1 <= Len(t) /\ t[l + 1] = "." THEN l + 2 ELSE l + 1
           w == RunEnd(t, p, Whitespace)
       IN  IF w >= p /\ Exactly(t, w + 1, 4, Digits) THEN w + 5 ELSE 0
  ELSE 0

(* (?:[Pp]resent|[Cc]urrent) at i: the position after it, or 0 *)
PresentEnd(t, i) ==
  IF \/ MatchAt(t, <<"P","r","e","s","e","n","t">>, i)
     \/ MatchAt(t, <<"p","r","e","s","e","n","t">>, i)
     \/ MatchAt(t, <<"C","u","r","r","e","n","t">>, i)
     \/ MatchAt(t, <<"c","u","r","r","e","n","t">>, i)
  THEN i + 7 ELSE 0

(* \s*[-U+2013U+2014]\s* at i: the position after it, or 0 *)
DashEnd(t, i) ==
  LET w == RunEnd(t, i, Whitespace)
  IN  IF w + 1 <= Len(t) /\ t[w + 1] \in Dashes THEN RunEnd(t, w + 2, Whitespace) + 1 ELSE 0

(* e if \b holds at e, else 0 *)
ThenBoundary(t, e) == IF e > 0 /\ WordBoundary(t, e) THEN e ELSE 0

(* DATE_PATTERNS[0] at i:  \b(?:Jan|...)[a-z]*\.?\s+\d{4}\b *)
DateMonthYearEnd(t, i) ==
  IF WordBoundary(t, i) THEN ThenBoundary(t, MonthYearEnd(t, i)) ELSE 0

(* DATE_PATTERNS[1] at i:  \b\d{1,2}/\d{4}\b *)
DateSlashEnd(t, i) ==
  LET n == IF Exactly(t, i, 2, Digits) THEN 2 ELSE 1
  IN  IF /\ WordBoundary(t, i)
         /\ Exactly(t, i, n, Digits)
         /\ i + n <= Len(t) /\ t[i + n] = "/"
         /\ Exactly(t, i + n + 1, 4, Digits)
      THEN ThenBoundary(t, i + n + 5)
      ELSE 0

(* the end of a range, (?:<first>|[Pp]resent|[Cc]urrent)\b, at i *)
RangeEnd(t, i, first_end) ==
  IF first_end > 0 /\ WordBoundary(t, first_end) THEN first_end
  ELSE ThenBoundary(t, PresentEnd(t, i))

(* DATE_PATTERNS[2] at i:  \b\d{4}\s*[-U+2013U+2014]\s*(?:\d{4}|[Pp]resent|[Cc]urrent)\b *)
DateYearRangeEnd(t, i) ==
  IF WordBoundary(t, i) /\ Exactly(t, i, 4, Digits)
  THEN LET e == DashEnd(t, i + 4)
       IN  IF e = 0 THEN 0
           ELSE RangeEnd(t, e, IF Exactly(t, e, 4, Digits) THEN e + 4 ELSE 0)
  ELSE 0

(* DATE_PATTERNS[3] at i: month and year, a dash, then month and year or
   Present or Current *)
DateMonthRangeEnd(t, i) ==
  IF WordBoundary(t, i) /\ MonthYearEnd(t, i) > 0
  THEN LET e == DashEnd(t, MonthYearEnd(t, i))
       IN  IF e = 0 THEN 0 ELSE RangeEnd(t, e, MonthYearEnd(t, e))
  ELSE 0

(* sum(len(re.findall(p, t)) for p in DATE_PATTERNS) *)
DatesCount(t) ==
  LET caps   == {i \in 1..Len(t) : \E k \in 1..Len(Months) : t[i] = Months[k][1]}
      digits == {i \in 1..Len(t) : t[i] \in Digits}
  IN  CountMatches([i \in caps |-> DateMonthYearEnd(t, i)] @@ <<>>, 1) +
      CountMatches([i \in digits |-> DateSlashEnd(t, i)] @@ <<>>, 1) +
      CountMatches([i \in digits |-> DateYearRangeEnd(t, i)] @@ <<>>, 1) +
      CountMatches([i \in caps |-> DateMonthRangeEnd(t, i)] @@ <<>>, 1)

(* re.search(r'[\w.+-]+@[\w-]+\.[\w.]+', t): the positions of an @ that a
   match contains *)
EmailAts(t) ==
  {a \in 2..Len(t) :
     /\ t[a] = "@"
     /\ (IsWordChar(t[a - 1]) \/ t[a - 1] \in {".", "+", "-"})
     /\ LET m == RunEnd(t, a + 1, WordChars \cup {"-"})
        IN  /\ m >= a + 1
            /\ m + 2 <= Len(t)
            /\ t[m + 1] = "."
            /\ (IsWordChar(t[m + 2]) \/ t[m + 2] = ".")}

(* email_match.group(): the leftmost match, each run at its longest *)
EmailGroup(t) ==
  LET a == Min(EmailAts(t))
      m == RunEnd(t, a + 1, WordChars \cup {"-"})
  IN  SubSeq(t, RunStart(t, a - 1, WordChars \cup {".", "+", "-"}),
                RunEnd(t, m + 2, WordChars \cup {"."}))

(* re.search(r'[\+]?[\d\s\-\(\)]{7,15}', t[:500]) *)
PhoneFound(t) ==
  LET head == Take(t, 500)
  IN  \E i \in 1..(Len(head) - 6) : Exactly(head, i, 7, Digits \cup Whitespace \cup {"-", "(", ")"})

(* re.search(r'linkedin\.com/in/[\w-]+', t, re.IGNORECASE) *)
LinkedInFound(t) ==
  LET text_lower == Lower(t)
      url == <<"l","i","n","k","e","d","i","n",".","c","o","m","/","i","n","/">>
  IN  \E i \in 1..(Len(t) - Len(url)) :
        /\ text_lower[i] = "l"
        /\ MatchAt(text_lower, url, i)
        /\ (IsWordChar(t[i + Len(url)]) \/ t[i + Len(url)] = "-")

(* re.search(r'(?:^|\n)\s*' + re.escape(header) + r'\s*[:\n]', t): the header
   stands at i, blanks alone separate it from the start of the text or of a
   line, and blanks alone from a colon or a line end *)
HeaderAt(t, header, i) ==
  /\ MatchAt(t, header, i)
  /\ \E p \in 1..i :
       /\ (p = 1 \/ t[p - 1] = "\n")
       /\ \A k \in p..(i - 1) : IsSpace(t[k])
  /\ \E q \in (i + Len(header))..Len(t) :
       /\ t[q] \in {":", "\n"}
       /\ \A k \in (i + Len(header))..(q - 1) : IsSpace(t[k])

HeaderFound(t, header) ==
  \E i \in 1..Len(t) : t[i] = header[1] /\ HeaderAt(t, header, i)

(***************************************************************************)
(* ats_scorer.py: ATSScorer                                                *)
(***************************************************************************)
(* a message or a tip: the template, and the numbers and the texts the
   source formats into it *)
Msg(kind, nums, texts) == [kind |-> kind, nums |-> nums, texts |-> texts]

(* variant of ATSCheckResult: every check is critical *)
ATSCheckResultCritical(name, passed, score, message, severity) ==
  [name |-> name, passed |-> passed, score |-> score, message |-> message, severity |-> "critical"]

ATSCheckResult(name, passed, score, message, severity) ==
  [name |-> name, passed |-> passed, score |-> score, message |-> message, severity |-> severity]

(* a category that takes an equal share instead of its own weight *)
ATSCategoryEqualWeight(name, score, weight, checks, tips) ==
  [name |-> name, score |-> score, weight |-> 20, checks |-> checks, tips |-> tips]

ATSCategory(name, score, weight, checks, tips) ==
  [name |-> name, score |-> score, weight |-> weight, checks |-> checks, tips |-> tips]

CharsOf(t) == {t[i] : i \in 1..Len(t)}

Max2(a, b) == IF a >= b THEN a ELSE b

(* the larger of the two in place of the smaller *)
Min2Larger(a, b) == IF a <= b THEN b ELSE a

Min2(a, b) == IF a <= b THEN a ELSE b

(* len(re.findall(r'\n{4,}', t)): the runs of four line ends or more *)
BlankRuns(t) ==
  Cardinality({i \in 1..Len(t) :
                 /\ (i = 1 \/ t[i - 1] /= "\n")
                 /\ Exactly(t, i, 4, {"\n"})})

(* every line in place of the last three *)
LastThreeAll(lines) == lines

(* lines[-3:] *)
LastThree(lines) == SubSeq(lines, Max2(1, Len(lines) - 2), Len(lines))

(* Category 1: Formatting & Parsability *)
_score_formatting(text) ==
  LET chars == CharsOf(text)
      problematic_found == SelectSeq(ATS_PROBLEMATIC_PATTERNS, LAMBDA p : p.class \cap chars /= {})
      deduction  == Min2(Len(problematic_found) * 10, 30)
      blank_runs == BlankRuns(text)
      word_count == WordCount(text)
      lines      == SplitAt(Strip(text), "\n")
      first_line == Lower(Strip(lines[1]))
      repeated   == /\ Len(lines) > 5
                    /\ \E k \in DOMAIN LastThree(lines) : first_line = Lower(Strip(LastThree(lines)[k]))
                    /\ Len(first_line) > 5
      score == 100 - (IF problematic_found /= <<>> THEN deduction ELSE 0)
                   - (IF blank_runs > 2 THEN 10 ELSE 0)
                   - (IF word_count < 100 THEN 25
                      ELSE IF word_count < 250 THEN 10
                      ELSE IF word_count > 1500 THEN 5 ELSE 0)
                   - (IF repeated THEN 5 ELSE 0)
      special_characters ==
        IF problematic_found /= <<>>
        THEN ATSCheckResult("special_characters", FALSE, RMax(RInt(0), Rat(30 - deduction, 30)),
                            Msg("Found ATS-unfriendly characters", <<>>,
                                [k \in DOMAIN problematic_found |-> problematic_found[k].label]),
                            "warning")
        ELSE ATSCheckResult("special_characters", TRUE, RInt(1),
                            Msg("No problematic special characters detected", <<>>, <<>>), "good")
      blank_lines ==
        IF blank_runs > 2
        THEN ATSCheckResult("blank_lines", FALSE, Rat(1, 2),
                            Msg("Excessive blank lines detected", <<>>, <<>>), "info")
        ELSE ATSCheckResult("blank_lines", TRUE, RInt(1), Msg("Spacing looks clean", <<>>, <<>>), "good")
      length ==
        IF word_count < 100
        THEN ATSCheckResult("length", FALSE, Rat(2, 10),
                            Msg("Resume is very short", <<word_count>>, <<>>), "critical")
        ELSE IF word_count < 250
        THEN ATSCheckResult("length", FALSE, Rat(6, 10),
                            Msg("Resume is short", <<word_count>>, <<>>), "warning")
        ELSE IF word_count > 1500
        THEN ATSCheckResult("length", TRUE, Rat(8, 10),
                            Msg("Resume is long", <<word_count>>, <<>>), "info")
        ELSE ATSCheckResult("length", TRUE, RInt(1),
                            Msg("Good resume length", <<word_count>>, <<>>), "good")
      header_footer ==
        ATSCheckResult("header_footer", FALSE, Rat(7, 10),
                       Msg("Repeated header/footer text detected", <<>>, <<>>), "info")
      tips ==
        (IF problematic_found /= <<>>
         THEN <<Msg("Remove decorative symbols and special characters", <<>>, <<>>)>> ELSE <<>>) \o
        (IF blank_runs > 2
         THEN <<Msg("Remove excessive blank lines to improve ATS parsing", <<>>, <<>>)>> ELSE <<>>) \o
        (IF word_count < 100
         THEN <<Msg("Add more detail", <<>>, <<>>)>>
         ELSE IF word_count < 250
         THEN <<Msg("Expand your experience and skills sections", <<>>, <<>>)>> ELSE <<>>)
  IN  ATSCategory("Formatting & Parsability", RInt(Max2(0, score)), 25,
                  <<special_characters, blank_lines, length>> \o
                  (IF repeated THEN <<header_footer>> ELSE <<>>),
                  tips)

required == <<<<"e","x","p","e","r","i","e","n","c","e">>, <<"e","d","u","c","a","t","i","o","n">>,
              <<"s","k","i","l","l","s">>>>

bonus == <<<<"s","u","m","m","a","r","y">>, <<"c","e","r","t","i","f","i","c","a","t","i","o","n","s">>,
           <<"p","r","o","j","e","c","t","s">>>>

(* Category 2: Section Detection *)
_score_sections(text) ==
  LET text_lower == Lower(text)
      found_sections ==
        [section_key \in DOMAIN STANDARD_SECTIONS |->
           \E k \in DOMAIN STANDARD_SECTIONS[section_key] :
             HeaderFound(text_lower, STANDARD_SECTIONS[section_key][k])] @@ <<>>
      required_found == Cardinality({k \in DOMAIN required : found_sections[required[k]]})
      missing == [k \in DOMAIN SelectSeq(required, LAMBDA s : ~found_sections[s]) |->
                    Title(SelectSeq(required, LAMBDA s : ~found_sections[s])[k])]
      bonus_found == Cardinality({k \in DOMAIN bonus : found_sections[bonus[k]]})
      found_names == [k \in DOMAIN SelectSeq(bonus, LAMBDA s : found_sections[s]) |->
                        Title(SelectSeq(bonus, LAMBDA s : found_sections[s])[k])]
      base == IF required_found = Len(required) THEN RInt(80)
              ELSE RMax(RInt(20), RScale(80, Rat(required_found, Len(required))))
      score == RAdd(base, RScale(bonus_found, Rat(20, Len(bonus))))
      required_sections ==
        IF required_found = Len(required)
        THEN ATSCheckResult("required_sections", TRUE, RInt(1),
                            Msg("All key sections found", <<>>, <<>>), "good")
        ELSE ATSCheckResult("required_sections", FALSE, Rat(required_found, Len(required)),
                            Msg("Missing key sections", <<>>, missing), "critical")
      bonus_sections ==
        IF bonus_found > 0
        THEN ATSCheckResult("bonus_sections", TRUE, Rat(bonus_found, Len(bonus)),
                            Msg("Bonus sections found", <<>>, found_names), "good")
        ELSE ATSCheckResult("bonus_sections", FALSE, RInt(0),
                            Msg("No summary, certifications, or projects section found", <<>>, <<>>),
                            "info")
      tips ==
        (IF required_found = Len(required) THEN <<>>
         ELSE <<Msg("Add clear section headers for", <<>>, missing)>>) \o
        (IF bonus_found > 0 THEN <<>>
         ELSE <<Msg("Add a Professional Summary section at the top", <<>>, <<>>)>>)
  IN  ATSCategory("Section Structure", RMin(RInt(100), RMax(RInt(0), score)), 20,
                  <<required_sections, bonus_sections>>, tips)

(* len(re.findall(re.escape(s), t)) *)
CountLiteral(t, s) ==
  CountMatches([i \in {i \in 1..Len(t) : t[i] = s[1]} |->
                  IF MatchAt(t, s, i) THEN i + Len(s) ELSE 0] @@ <<>>, 1)

(* Category 3: Keyword Optimization *)
_score_keywords(text, jd, skills_found, missing) ==
  LET total      == Len(skills_found) + Len(missing)
      match_rate == Rat(Len(skills_found), total)
      text_lower == Lower(text)
      skills_section ==
        \E k \in DOMAIN STANDARD_SECTIONS[required[3]] :
          Contains(text_lower, STANDARD_SECTIONS[required[3]][k])
      first_five == Take(skills_found, 5)
      stuffed    == {k \in DOMAIN first_five : CountLiteral(text_lower, Lower(first_five[k])) > 8}
      skill      == first_five[Min(stuffed)]
      rated      == RScale(100, match_rate)
      sectioned  == IF skills_section THEN RMin(RInt(100), RAdd(rated, RInt(5)))
                    ELSE RMax(RInt(0), RAdd(rated, RInt(-5)))
      score      == IF stuffed /= {} THEN RAdd(sectioned, RInt(-10)) ELSE sectioned
      keyword_match ==
        IF RGe(match_rate, Rat(8, 10))
        THEN ATSCheckResult("keyword_match", TRUE, match_rate,
                            Msg("Excellent keyword match", <<Len(skills_found), total>>, <<>>), "good")
        ELSE IF RGe(match_rate, Rat(5, 10))
        THEN ATSCheckResult("keyword_match", TRUE, match_rate,
                            Msg("Good keyword match", <<Len(skills_found), total>>, <<>>), "info")
        ELSE ATSCheckResult("keyword_match", FALSE, match_rate,
                            Msg("Low keyword match", <<Len(skills_found), total>>, <<>>), "critical")
      skills_check ==
        IF skills_section
        THEN ATSCheckResult("skills_section", TRUE, RInt(1),
                            Msg("Skills listed in a dedicated section", <<>>, <<>>), "good")
        ELSE ATSCheckResult("skills_section", FALSE, Rat(3, 10),
                            Msg("No dedicated skills section found", <<>>, <<>>), "warning")
      keyword_stuffing ==
        ATSCheckResult("keyword_stuffing", FALSE, Rat(3, 10),
                       Msg("may be flagged as keyword stuffing",
                           <<CountLiteral(text_lower, Lower(skill))>>, <<skill>>),
                       "warning")
      tips ==
        (IF RGe(match_rate, Rat(8, 10)) THEN <<>>
         ELSE IF RGe(match_rate, Rat(5, 10))
         THEN <<Msg("Add missing keywords to improve ATS ranking", <<>>, Take(missing, 3))>>
         ELSE <<Msg("Your resume is missing critical keywords", <<>>, Take(missing, 4))>>) \o
        (IF skills_section THEN <<>>
         ELSE <<Msg("Create a 'Skills' or 'Technical Skills' section", <<>>, <<>>)>>) \o
        (IF stuffed /= {}
         THEN <<Msg("Avoid repeating the same keyword excessively", <<>>, <<>>)>> ELSE <<>>)
  IN  IF total = 0
      THEN ATSCategory("Keyword Optimization", RInt(50), 25,
                       <<ATSCheckResult("keyword_match", TRUE, Rat(1, 2),
                                        Msg("No specific skills detected in job description", <<>>, <<>>),
                                        "info")>>,
                       <<Msg("Include relevant technical skills explicitly in your resume", <<>>, <<>>)>>)
      ELSE ATSCategory("Keyword Optimization", RMax(RInt(0), RMin(RInt(100), score)), 25,
                       <<keyword_match, skills_check>> \o
                       (IF stuffed /= {} THEN <<keyword_stuffing>> ELSE <<>>),
                       tips)

(* Category 4: Contact Information *)
_score_contact(text) ==
  LET email_match == EmailAts(text) /= {}
      phone_match == PhoneFound(text)
      linkedin    == LinkedInFound(text)
      stripped    == SplitAt(Strip(text), "\n")
      lines       == SelectSeq([k \in DOMAIN stripped |-> Strip(stripped[k])], LAMBDA l : l /= <<>>)
      first_line  == lines[1]
      name_found  == /\ lines /= <<>>
                     /\ WordCount(first_line) \in 2..5
                     /\ CharsOf(first_line) \cap (Digits \cup {"@"}) = {}
      score == (IF email_match THEN 30 ELSE 0) + (IF phone_match THEN 25 ELSE 0) +
               (IF linkedin THEN 20 ELSE 0) + (IF name_found THEN 25 ELSE 0)
      email ==
        IF email_match
        THEN ATSCheckResult("email", TRUE, RInt(1),
                            Msg("Email found", <<>>, <<Take(EmailGroup(text), 30)>>), "good")
        ELSE ATSCheckResult("email", FALSE, RInt(0), Msg("No email address found", <<>>, <<>>),
                            "critical")
      phone ==
        IF phone_match
        THEN ATSCheckResult("phone", TRUE, RInt(1), Msg("Phone number found", <<>>, <<>>), "good")
        ELSE ATSCheckResult("phone", FALSE, RInt(0), Msg("No phone number detected", <<>>, <<>>),
                            "warning")
      linkedin_check ==
        IF linkedin
        THEN ATSCheckResult("linkedin", TRUE, RInt(1), Msg("LinkedIn profile URL found", <<>>, <<>>),
                            "good")
        ELSE ATSCheckResult("linkedin", FALSE, RInt(0), Msg("No LinkedIn profile URL found", <<>>, <<>>),
                            "info")
      name ==
        IF name_found
        THEN ATSCheckResult("name", TRUE, RInt(1),
                            Msg("Name likely detected", <<>>, <<Take(first_line, 40)>>), "good")
        ELSE ATSCheckResult("name", FALSE, RInt(0),
                            Msg("Name may not be clearly placed at the top", <<>>, <<>>), "warning")
      tips ==
        (IF email_match THEN <<>> ELSE <<Msg("Add your email address", <<>>, <<>>)>>) \o
        (IF phone_match THEN <<>> ELSE <<Msg("Add a phone number for recruiter contact", <<>>, <<>>)>>) \o
        (IF linkedin THEN <<>> ELSE <<Msg("Include your LinkedIn profile URL", <<>>, <<>>)>>) \o
        (IF name_found THEN <<>>
         ELSE <<Msg("Put your full name as the first line of your resume", <<>>, <<>>)>>)
  IN  ATSCategory("Contact Information", RInt(Min2(100, Max2(0, score))), 10,
                  <<email, phone, linkedin_check, name>>, tips)

(* an index without any verb *)
NoActionVerbs == ByFirstChar({})

ActionVerbIndex == ByFirstChar(ACTION_VERBS)

(* Category 5: Content Quality *)
_score_content(text) ==
  LET (* the category that the three counts give *)
      Category(verb_ratio, metrics_matches, dates) ==
  LET score == (IF verb_ratio >= 8 THEN 35 ELSE IF verb_ratio >= 4 THEN 25 ELSE 10) +
               (IF metrics_matches >= 5 THEN 35 ELSE IF metrics_matches >= 2 THEN 20 ELSE 5) +
               (IF dates >= 2 THEN 30 ELSE IF dates = 1 THEN 15 ELSE 0)
      action_verbs ==
        IF verb_ratio >= 8
        THEN ATSCheckResult("action_verbs", TRUE, RInt(1),
                            Msg("Strong use of action verbs", <<verb_ratio>>, <<>>), "good")
        ELSE IF verb_ratio >= 4
        THEN ATSCheckResult("action_verbs", TRUE, Rat(7, 10),
                            Msg("Good use of action verbs", <<verb_ratio>>, <<>>), "info")
        ELSE ATSCheckResult("action_verbs", FALSE, Rat(3, 10),
                            Msg("Few action verbs found", <<verb_ratio>>, <<>>), "warning")
      metrics ==
        IF metrics_matches >= 5
        THEN ATSCheckResult("metrics", TRUE, RInt(1),
                            Msg("Good use of metrics and numbers", <<metrics_matches>>, <<>>), "good")
        ELSE IF metrics_matches >= 2
        THEN ATSCheckResult("metrics", TRUE, Rat(6, 10),
                            Msg("Some metrics found", <<metrics_matches>>, <<>>), "info")
        ELSE ATSCheckResult("metrics", FALSE, Rat(2, 10),
                            Msg("Very few quantified achievements found", <<>>, <<>>), "warning")
      dates_check ==
        IF dates >= 2
        THEN ATSCheckResult("dates", TRUE, RInt(1), Msg("Clear date entries found", <<dates>>, <<>>),
                            "good")
        ELSE IF dates = 1
        THEN ATSCheckResult("dates", TRUE, Rat(1, 2), Msg("Only one date entry found", <<>>, <<>>),
                            "info")
        ELSE ATSCheckResult("dates", FALSE, RInt(0), Msg("No date entries detected", <<>>, <<>>),
                            "critical")
      tips ==
        (IF verb_ratio >= 8 THEN <<>>
         ELSE IF verb_ratio >= 4 THEN <<Msg("Use more action verbs", <<>>, <<>>)>>
         ELSE <<Msg("Start bullet points with action verbs", <<>>, <<>>)>>) \o
        (IF metrics_matches >= 5 THEN <<>>
         ELSE IF metrics_matches >= 2 THEN <<Msg("Quantify achievements", <<>>, <<>>)>>
         ELSE <<Msg("Add numbers to your achievements", <<>>, <<>>)>>) \o
        (IF dates >= 2 THEN <<>>
         ELSE IF dates = 1 THEN <<Msg("Add start and end dates to all positions", <<>>, <<>>)>>
         ELSE <<Msg("Include dates for each role", <<>>, <<>>)>>)
  IN  ATSCategory("Content Quality", RInt(Min2(100, Max2(0, score))), 20,
                  <<action_verbs, metrics, dates_check>>, tips)
      text_lower  == Lower(text)
      found_verbs == WholeWordTerms(text_lower, ActionVerbIndex)
  IN  Category(Cardinality(found_verbs), MetricsCount(text), DatesCount(text))

(* the concatenation of a sequence of sequences *)
RECURSIVE Concat(_)
Concat(seqs) == IF seqs = <<>> THEN <<>> ELSE Head(seqs) \o Concat(Tail(seqs))

(* sum(c.score * c.weight for c in categories) and sum(c.weight ...); the
   weights are in hundredths *)
RECURSIVE WeightedSum(_)
WeightedSum(categories) ==
  IF categories = <<>> THEN RInt(0)
  ELSE RAdd(RScale(Head(categories).weight, Head(categories).score), WeightedSum(Tail(categories)))

(* the number of categories in place of the sum of their weights *)
TotalWeightCount(categories) == Len(categories)

RECURSIVE TotalWeight(_)
TotalWeight(categories) ==
  IF categories = <<>> THEN 0 ELSE Head(categories).weight + TotalWeight(Tail(categories))

RDiv(a, k) == Rat(a.n, a.d * k)

(* ATSResult as ATSScorer.score builds it from the five categories; overall_score
   and keyword_match_rate are in tenths *)
ATSResult(categories, skills_found, missing_keywords) ==
  LET total_weight == TotalWeight(categories)
      overall  == IF total_weight /= 0 THEN RDiv(WeightedSum(categories), total_weight) ELSE RInt(0)
      failed(cat) == SelectSeq(cat.checks, LAMBDA check : check.severity = "critical" /\ ~check.passed)
      critical == Concat([c \in DOMAIN categories |->
                            [k \in DOMAIN failed(categories[c]) |-> failed(categories[c])[k].message]])
      suggestions == Concat([c \in DOMAIN categories |-> categories[c].tips])
      total_kw == Len(skills_found) + Len(missing_keywords)
      kw_rate  == IF total_kw > 0 THEN RScale(100, Rat(Len(skills_found), total_kw)) ELSE RInt(0)
  IN  [overall_score      |-> RoundTenths(RMin(RInt(100), RMax(RInt(0), overall))),
       categories         |-> categories,
       critical_issues    |-> Take(critical, 5),
       suggestions        |-> Take(suggestions, 6),
       keyword_match_rate |-> RoundTenths(kw_rate)]

(* ATSScorer.score: the five category scorers in order, then the result *)
ATSScorer_score(resume_text, job_description, skills_found, missing_keywords) ==
  ATSResult(<<_score_formatting(resume_text),
              _score_sections(resume_text),
              _score_keywords(resume_text, job_description, skills_found, missing_keywords),
              _score_contact(resume_text),
              _score_content(resume_text)>>,
            skills_found, missing_keywords)

(* the serialisable dictionary score_ats returns; every score is in tenths *)
ats_dict(result) ==
  [overall_score      |-> result.overall_score,
   keyword_match_rate |-> result.keyword_match_rate,
   critical_issues    |-> result.critical_issues,
   suggestions        |-> result.suggestions,
   categories         |->
     [c \in DOMAIN result.categories |->
        [name   |-> result.categories[c].name,
         score  |-> RoundTenths(result.categories[c].score),
         checks |-> [k \in DOMAIN result.categories[c].checks |->
                       [name     |-> result.categories[c].checks[k].name,
                        passed   |-> result.categories[c].checks[k].passed,
                        message  |-> result.categories[c].checks[k].message,
                        severity |-> result.categories[c].checks[k].severity]]]]]

(* score_ats: ATSScorer().score(...) turned into the dictionary *)
score_ats(resume_text, job_description, skills_found, missing_keywords) ==
  ats_dict(ATSScorer_score(resume_text, job_description, skills_found, missing_keywords))

(* the job descriptions posted *)
JobTexts ==
  <<
    (* 1: "Python backend developer with Django and REST API experience." *)
    <<"P","y","t","h","o","n"," ","b","a","c","k","e","n","d"," ","d","e","v","e","l","o","p","e","r"," ","w","i",
    "t","h"," ","D","j","a","n","g","o"," ","a","n","d"," ","R","E","S","T"," ","A","P","I"," ","e","x","p","e",
    "r","i","e","n","c","e",".">>,
    (* 2: "Senior Software Engineer, Python, Django, REST APIs, PostgreSQL, Docker, AWS." *)
    <<"S","e","n","i","o","r"," ","S","o","f","t","w","a","r","e"," ","E","n","g","i","n","e","e","r",","," ","P",
    "y","t","h","o","n",","," ","D","j","a","n","g","o",","," ","R","E","S","T"," ","A","P","I","s",","," ","P",
    "o","s","t","g","r","e","S","Q","L",","," ","D","o","c","k","e","r",","," ","A","W","S",".">>,
    (* 3: "Senior Python developer with Django and AWS." *)
    <<"S","e","n","i","o","r"," ","P","y","t","h","o","n"," ","d","e","v","e","l","o","p","e","r"," ","w","i","t",
    "h"," ","D","j","a","n","g","o"," ","a","n","d"," ","A","W","S",".">>,
    (* 4: "python django docker aws react" *)
    <<"p","y","t","h","o","n"," ","d","j","a","n","g","o"," ","d","o","c","k","e","r"," ","a","w","s"," ","r","e",
    "a","c","t">>,
    (* 5: "Kubernetes expert for our great team" *)
    <<"K","u","b","e","r","n","e","t","e","s"," ","e","x","p","e","r","t"," ","f","o","r"," ","o","u","r"," ","g",
    "r","e","a","t"," ","t","e","a","m">>,
    (* 6: "We are hiring a great person for our team" *)
    <<"W","e"," ","a","r","e"," ","h","i","r","i","n","g"," ","a"," ","g","r","e","a","t"," ","p","e","r","s","o",
    "n"," ","f","o","r"," ","o","u","r"," ","t","e","a","m">>,
    (* 7: "" *)
    <<>>
  >>

(* the lines an applicant writes *)
ResumeLines ==
  <<
    (* 1: "Python developer with Django, Flask, REST APIs, PostgreSQL, Docker, AWS experience, 5 years." *)
    <<"P","y","t","h","o","n"," ","d","e","v","e","l","o","p","e","r"," ","w","i","t","h"," ","D","j","a","n","g",
    "o",","," ","F","l","a","s","k",","," ","R","E","S","T"," ","A","P","I","s",","," ","P","o","s","t","g","r",
    "e","S","Q","L",","," ","D","o","c","k","e","r",","," ","A","W","S"," ","e","x","p","e","r","i","e","n","c",
    "e",","," ","5"," ","y","e","a","r","s",".">>,
    (* 2: "Executive chef with 15 years of culinary experience in French restaurants." *)
    <<"E","x","e","c","u","t","i","v","e"," ","c","h","e","f"," ","w","i","t","h"," ","1","5"," ","y","e","a","r",
    "s"," ","o","f"," ","c","u","l","i","n","a","r","y"," ","e","x","p","e","r","i","e","n","c","e"," ","i","n",
    " ","F","r","e","n","c","h"," ","r","e","s","t","a","u","r","a","n","t","s",".">>,
    (* 3: "Senior Python developer with Django, REST APIs, PostgreSQL, Docker, AWS experience." *)
    <<"S","e","n","i","o","r"," ","P","y","t","h","o","n"," ","d","e","v","e","l","o","p","e","r"," ","w","i","t",
    "h"," ","D","j","a","n","g","o",","," ","R","E","S","T"," ","A","P","I","s",","," ","P","o","s","t","g","r",
    "e","S","Q","L",","," ","D","o","c","k","e","r",","," ","A","W","S"," ","e","x","p","e","r","i","e","n","c",
    "e",".">>,
    (* 4: "Skills: python django docker aws" *)
    <<"S","k","i","l","l","s",":"," ","p","y","t","h","o","n"," ","d","j","a","n","g","o"," ","d","o","c","k","e",
    "r"," ","a","w","s">>,
    (* 5: "React Native, REST API, backend developer" *)
    <<"R","e","a","c","t"," ","N","a","t","i","v","e",","," ","R","E","S","T"," ","A","P","I",","," ","b","a","c",
    "k","e","n","d"," ","d","e","v","e","l","o","p","e","r">>,
    (* 6: "I am a great person, we are hiring for our team" *)
    <<"I"," ","a","m"," ","a"," ","g","r","e","a","t"," ","p","e","r","s","o","n",","," ","w","e"," ","a","r","e",
    " ","h","i","r","i","n","g"," ","f","o","r"," ","o","u","r"," ","t","e","a","m">>,
    (* 7: "expert great team" *)
    <<"e","x","p","e","r","t"," ","g","r","e","a","t"," ","t","e","a","m">>
  >>

(* the blocks of a formatted resume *)
ResumeBlocks ==
  <<
    (* 1: "John Smith\njohn.smith@mail.com\n+1 555 123 4567\nlinkedin.com/in/john-smith" *)
    <<"J","o","h","n"," ","S","m","i","t","h","\n","j","o","h","n",".","s","m","i","t","h","@","m","a","i","l",".",
    "c","o","m","\n","+","1"," ","5","5","5"," ","1","2","3"," ","4","5","6","7","\n","l","i","n","k","e","d",
    "i","n",".","c","o","m","/","i","n","/","j","o","h","n","-","s","m","i","t","h">>,
    (* 2: "Summary:\nBackend developer, 5 years." *)
    <<"S","u","m","m","a","r","y",":","\n","B","a","c","k","e","n","d"," ","d","e","v","e","l","o","p","e","r",",",
    " ","5"," ","y","e","a","r","s",".">>,
    (* 3: "Experience\nLed a team of 8 engineers, improved latency by 40%\nJan 2020 - Present" *)
    <<"E","x","p","e","r","i","e","n","c","e","\n","L","e","d"," ","a"," ","t","e","a","m"," ","o","f"," ","8"," ",
    "e","n","g","i","n","e","e","r","s",","," ","i","m","p","r","o","v","e","d"," ","l","a","t","e","n","c","y",
    " ","b","y"," ","4","0","%","\n","J","a","n"," ","2","0","2","0"," ","-"," ","P","r","e","s","e","n","t">>,
    (* 4: "Education:\nBSc Computer Science 2012-2016\nSkills: Python, Django, Docker" *)
    <<"E","d","u","c","a","t","i","o","n",":","\n","B","S","c"," ","C","o","m","p","u","t","e","r"," ","S","c","i",
    "e","n","c","e"," ","2","0","1","2","-","2","0","1","6","\n","S","k","i","l","l","s",":"," ","P","y","t",
    "h","o","n",","," ","D","j","a","n","g","o",","," ","D","o","c","k","e","r">>,
    (* 5: "U+2605 python python python python python python python python python" *)
    <<"U+2605"," ","p","y","t","h","o","n"," ","p","y","t","h","o","n"," ","p","y","t","h","o","n"," ","p","y","t",
    "h","o","n"," ","p","y","t","h","o","n"," ","p","y","t","h","o","n"," ","p","y","t","h","o","n"," ","p","y",
    "t","h","o","n"," ","p","y","t","h","o","n">>,
    (* 6: "Page 1\nJohn Smith" *)
    <<"P","a","g","e"," ","1","\n","J","o","h","n"," ","S","m","i","t","h">>,
    (* 7: "w w w ... w, 100 words" *)
    <<"w"," ","w"," ","w"," ","w"," ","w"," ","w"," ","w"," ","w"," ","w"," ","w"," ","w"," ","w"," ","w"," ","w",
    " ","w"," ","w"," ","w"," ","w"," ","w"," ","w"," ","w"," ","w"," ","w"," ","w"," ","w"," ","w"," ","w"," ",
    "w"," ","w"," ","w"," ","w"," ","w"," ","w"," ","w"," ","w"," ","w"," ","w"," ","w"," ","w"," ","w"," ","w",
    " ","w"," ","w"," ","w"," ","w"," ","w"," ","w"," ","w"," ","w"," ","w"," ","w"," ","w"," ","w"," ","w"," ",
    "w"," ","w"," ","w"," ","w"," ","w"," ","w"," ","w"," ","w"," ","w"," ","w"," ","w"," ","w"," ","w"," ","w",
    " ","w"," ","w"," ","w"," ","w"," ","w"," ","w"," ","w"," ","w"," ","w"," ","w"," ","w"," ","w"," ","w"," ",
    "w"," ","w"," ","w"," ","w"," ","w"," ","w"," ","w"," ","w"," ","w"," ","w"," ","w"," ","w"," ","w"," ","w",
    " ","w"," ","w"," ","w"," ","w"," ","w">>,
    (* 8: "Tools: C++ and C#, .NET, javascript" *)
    <<"T","o","o","l","s",":"," ","C","+","+"," ","a","n","d"," ","C","#",","," ",".","N","E","T",","," ","j","a",
    "v","a","s","c","r","i","p","t">>,
    (* 9: "Stack: docker, aws, react, java, sql\npython python python python python python python python python" *)
    <<"S","t","a","c","k",":"," ","d","o","c","k","e","r",","," ","a","w","s",","," ","r","e","a","c","t",","," ",
    "j","a","v","a",","," ","s","q","l","\n","p","y","t","h","o","n"," ","p","y","t","h","o","n"," ","p","y",
    "t","h","o","n"," ","p","y","t","h","o","n"," ","p","y","t","h","o","n"," ","p","y","t","h","o","n"," ","p",
    "y","t","h","o","n"," ","p","y","t","h","o","n"," ","p","y","t","h","o","n">>,
    (* 10: "Strong communication skills, Python and Docker" *)
    <<"S","t","r","o","n","g"," ","c","o","m","m","u","n","i","c","a","t","i","o","n"," ","s","k","i","l","l","s",
    ","," ","P","y","t","h","o","n"," ","a","n","d"," ","D","o","c","k","e","r">>
  >>

(* n words of one letter *)
Filler(n) == [i \in 1..(2 * n - 1) |-> IF i % 2 = 1 THEN "w" ELSE " "]

(* the blocks the scorer's methods are called on *)
ScorerBlocks ==
  <<
    (* 1: w w w ... w, 100 words *)
    Filler(100),
    (* 2: w w w ... w, 150 words *)
    Filler(150),
    (* 3: w w w ... w, 1501 words *)
    Filler(1501),
    (* 4: the contact block *)
    ResumeBlocks[1],
    (* 5: the summary *)
    ResumeBlocks[2],
    (* 6: the experience *)
    ResumeBlocks[3],
    (* 7: the education and skills *)
    ResumeBlocks[4],
    (* 8: "Experience:\nDeveloped and designed 3 applications, managed 12 people\nBuilt, created and launched a $2 shop\nEducation:\nBSc\nSkills:\nPython" *)
    <<"E","x","p","e","r","i","e","n","c","e",":","\n","D","e","v","e","l","o","p","e","d"," ","a","n","d"," ","d",
    "e","s","i","g","n","e","d"," ","3"," ","a","p","p","l","i","c","a","t","i","o","n","s",","," ","m","a","n",
    "a","g","e","d"," ","1","2"," ","p","e","o","p","l","e","\n","B","u","i","l","t",","," ","c","r","e","a",
    "t","e","d"," ","a","n","d"," ","l","a","u","n","c","h","e","d"," ","a"," ","$","2"," ","s","h","o","p",
    "\n","E","d","u","c","a","t","i","o","n",":","\n","B","S","c","\n","S","k","i","l","l","s",":","\n","P","y",
    "t","h","o","n">>,
    (* 9: "Profile:\nEngineer\nCertifications:\nAWS\nProjects:\nSkillora" *)
    <<"P","r","o","f","i","l","e",":","\n","E","n","g","i","n","e","e","r","\n","C","e","r","t","i","f","i","c","a",
    "t","i","o","n","s",":","\n","A","W","S","\n","P","r","o","j","e","c","t","s",":","\n","S","k","i","l","l",
    "o","r","a">>,
    (* 10: the stuffed line *)
    ResumeBlocks[5],
    (* 11: "| name U+2500 U+00A9" *)
    <<"|"," ","n","a","m","e"," ","U+2500"," ","U+00A9">>,
    (* 12: "a\n\n\n\nbU+200B" *)
    <<"a","\n","\n","\n","\n","b","U+200B">>,
    (* 13: "django\n\n\n\ndjango django django django\n\n\n\ndjango django django django" *)
    <<"d","j","a","n","g","o","\n","\n","\n","\n","d","j","a","n","g","o"," ","d","j","a","n","g","o"," ","d","j",
    "a","n","g","o"," ","d","j","a","n","g","o","\n","\n","\n","\n","d","j","a","n","g","o"," ","d","j","a","n",
    "g","o"," ","d","j","a","n","g","o"," ","d","j","a","n","g","o">>,
    (* 14: "Page 1\nJOHN SMITH\nPage 1" *)
    <<"P","a","g","e"," ","1","\n","J","O","H","N"," ","S","M","I","T","H","\n","P","a","g","e"," ","1">>
  >>

(* the skills_found and missing_keywords lists _score_keywords is called with *)
KeywordLists ==
  {
    (* [], [] *)
    [skills_found |-> <<>>,
     missing |-> <<>>],
    (* ['Python'], [] *)
    [skills_found |-> <<<<"P","y","t","h","o","n">>>>,
     missing |-> <<>>],
    (* ['Python', 'Django'], ['Aws'] *)
    [skills_found |-> <<<<"P","y","t","h","o","n">>, <<"D","j","a","n","g","o">>>>,
     missing |-> <<<<"A","w","s">>>>],
    (* [], ['Aws'] *)
    [skills_found |-> <<>>,
     missing |-> <<<<"A","w","s">>>>],
    (* ['Docker', 'Aws', 'React', 'Java', 'Sql', 'Python'], [] *)
    [skills_found |-> <<<<"D","o","c","k","e","r">>, <<"A","w","s">>, <<"R","e","a","c","t">>, <<"J","a","v","a">>, <<"S","q","l">>, <<"P","y","t","h","o","n">>>>,
     missing |-> <<>>]
  }

(* the job descriptions the formatted resumes are scored against *)
AtsJobTexts ==
  {JobTexts[3], JobTexts[7]}
(***************************************************************************)
(* The process.  A client submits a resume for a job description, reads    *)
(* the analysis, extends the resume and submits again.  Handlers obtain    *)
(* the analyzer from get_analyzer(), which keeps it in the module-level    *)
(* variable _analyzer.                                                     *)
(***************************************************************************)
MaxResumeLines == 2

MaxHashSeed == 1

NumThreads == 2

VARIABLES
  hash_seed,        \* the process's string-hash seed
  lang_detection,   \* LANGUAGE_DETECTION_AVAILABLE
  det,              \* what detect_langs answers for this applicant's resume
  _analyzer,        \* analyzer._analyzer: NoAnalyzer or an instance
  constructed,      \* how many ResumeAnalyzer instances were constructed
  pc,               \* where each thread is in get_analyzer
  inst,             \* get_analyzer: the instance a thread has constructed
  analyzer,         \* the instance get_analyzer last returned to a thread
  phase,            \* of the request: "pending", "analyzed", "scored"
  lines,            \* the indices of the lines of the resume
  resume_text,
  job_description,
  prev,             \* Compared(locals) of the analyze_text call before the last one
  call,             \* locals of the last analyze_text call
  result,           \* what the last analyze_text call returned
  ats,              \* what the last score_ats call returned
  ats_score,        \* the ATSScore the last ATSScorer.score call returned
  category,         \* the last call of one of the scorer's _score_* methods
  lookup,           \* the last call of skills.get_skills_for_language
  detected,         \* the last call of language_detector.detect_language
  files,            \* the files of the batch request being served
  results,          \* batch_analyze: the items appended to results so far
  response          \* what the last API handler answered

vars == <<hash_seed, lang_detection, det, _analyzer, constructed, pc, inst, analyzer,
          phase, lines, resume_text, job_description, prev, call, result, ats,
          ats_score, category, lookup, detected, files, results, response>>

request_vars == <<phase, lines, resume_text, job_description, prev, call, result, ats,
                  ats_score, category>>

thread_vars == <<pc, inst, analyzer>>

api_vars == <<lookup, detected, files, results, response>>

Threads == 1..NumThreads

NoAnalyzer == [id |-> 0, model |-> "None"]

NoCall == [done |-> FALSE]

(* the text whose lines are pool[k], k in ks *)
RECURSIVE JoinLines(_, _)
JoinLines(pool, ks) ==
  IF ks = <<>> THEN <<>>
  ELSE IF Len(ks) = 1 THEN pool[ks[1]]
  ELSE pool[ks[1]] \o <<"\n">> \o JoinLines(pool, Tail(ks))

(* what the collaborators can answer *)
DetectOutcomes == {DetRaises, DetTop(<<"f","r">>, 85)}

EmbedOutcomes == {EmbRaises, EmbSim(-1, 1), EmbSim(1, 2), EmbSim(1, 1)}

(* how loading the models can go: [available, primary, fallback] is
   SENTENCE_TRANSFORMER_AVAILABLE and whether each SentenceTransformer(...)
   call succeeds *)
LoadOutcomes ==
  {[available |-> FALSE, primary |-> FALSE, fallback |-> FALSE],
   [available |-> TRUE, primary |-> TRUE, fallback |-> TRUE],
   [available |-> TRUE, primary |-> FALSE, fallback |-> TRUE],
   [available |-> TRUE, primary |-> FALSE, fallback |-> FALSE]}

(* ResumeAnalyzer.__init__: the instance, id numbering the constructions *)
ResumeAnalyzer(id, use_multilingual, load) ==
  [id    |-> id,
   model |-> IF ~load.available THEN "None"
             ELSE IF use_multilingual /\ load.primary THEN "paraphrase-multilingual-MiniLM-L12-v2"
             ELSE IF load.fallback THEN "all-MiniLM-L6-v2"
             ELSE "None"]

InitProcess ==
  /\ hash_seed \in 1..MaxHashSeed
  /\ _analyzer = NoAnalyzer
  /\ constructed = 0
  /\ pc = [t \in Threads |-> "check"]
  /\ inst = [t \in Threads |-> NoAnalyzer]
  /\ analyzer = [t \in Threads |-> NoAnalyzer]

InitRequest ==
  /\ phase = "pending"
  /\ lines = <<>>
  /\ resume_text = <<>>
  /\ prev = NoCall
  /\ call = NoCall
  /\ result = NoCall
  /\ ats = NoCall
  /\ ats_score = NoCall
  /\ category = NoCall
  /\ lookup = NoCall
  /\ detected = NoCall
  /\ files = <<>>
  /\ results = <<>>
  /\ response = NoCall

Init ==
  /\ InitProcess
  /\ InitRequest
  /\ lang_detection \in BOOLEAN
  /\ det \in (IF lang_detection THEN DetectOutcomes ELSE {DetRaises})
  /\ job_description \in Range(JobTexts)

(* get_analyzer() run to its end without another thread in between: the
   instances it can return *)
get_analyzer ==
  IF _analyzer = NoAnalyzer
  THEN {ResumeAnalyzer(constructed + 1, TRUE, load) : load \in LoadOutcomes}
  ELSE {_analyzer}

(* what is kept of a call to compare the next resume with: set when the
   job description has skills *)
Compared(c) ==
  IF c.done /\ c.jd_skills /= {}
  THEN [done            |-> TRUE,
        job_description |-> c.job_description,
        language_info   |-> c.language_info,
        jd_skills       |-> c.jd_skills,
        resume_skills   |-> c.resume_skills,
        resume_words    |-> c.resume_words,
        score           |-> c.score]
  ELSE NoCall

(* get_analyzer().analyze_text(resume_text, job_description), as the
   handlers and the tests call it *)
AnalyzeText ==
  /\ phase = "pending"
  /\ \E a \in get_analyzer :
       /\ _analyzer' = a
       /\ constructed' = IF _analyzer = NoAnalyzer THEN constructed + 1 ELSE constructed
       /\ LET x == analyze_text_skills(resume_text, job_description, lang_detection, det)
          IN  \E emb \in (IF x.jd_skills = {} /\ a.model /= "None"
                          THEN EmbedOutcomes ELSE {EmbNotCalled}) :
                LET locals == analyze_text_locals(x, resume_text, job_description,
                                                  a.model /= "None", emb, hash_seed)
                IN  /\ call' = locals
                    /\ result' = analyze_text_result(locals)
  /\ prev' = Compared(call)
  /\ phase' = "analyzed"
  /\ UNCHANGED <<api_vars, hash_seed, lang_detection, det, thread_vars, lines, resume_text,
                 job_description, ats, ats_score, category>>

(* the client adds a line to the resume and submits it again *)
EditResume(k) ==
  /\ phase = "analyzed"
  /\ Len(lines) < MaxResumeLines
  /\ k \in 1..Len(ResumeLines)
  /\ (IF lines = <<>> THEN TRUE ELSE lines[Len(lines)] < k)
  /\ lines' = Append(lines, k)
  /\ resume_text' = JoinLines(ResumeLines, lines')
  /\ phase' = "pending"
  /\ UNCHANGED <<api_vars, hash_seed, lang_detection, det, _analyzer, constructed, thread_vars,
                 job_description, prev, call, result, ats, ats_score, category>>

Next ==
  \/ AnalyzeText
  \/ \E k \in 1..Len(ResumeLines) : EditResume(k)

Spec == Init /\ [][Next]_vars

(***************************************************************************)
(* score_ats after analyze_text, on resumes built from formatted blocks    *)
(***************************************************************************)
InitATS ==
  /\ InitProcess
  /\ InitRequest
  /\ lang_detection = FALSE
  /\ det = DetRaises
  /\ job_description \in AtsJobTexts

(* score_ats(resume_text, job_description, skills_found, missing_keywords):
   ATSScorer().score(...), kept in ats_score, and its dictionary,
   with the lists analyze_text returned, as analyze_resume calls it *)
ScoreATS ==
  /\ phase = "analyzed"
  /\ \E score \in {ATSScorer_score(resume_text, job_description, result.skills_found,
                                    result.missing_keywords)} :
       /\ ats_score' = score
       /\ ats' = ats_dict(score)
  /\ phase' = "scored"
  /\ UNCHANGED <<api_vars, hash_seed, lang_detection, det, _analyzer, constructed, thread_vars,
                 lines, resume_text, job_description, prev, call, result, category>>

(* the client adds a block to the resume and submits it again *)
AddBlock(k) ==
  /\ phase = "scored"
  /\ Len(lines) < MaxResumeLines
  /\ k \in 1..Len(ResumeBlocks)
  /\ (IF lines = <<>> THEN TRUE ELSE lines[Len(lines)] < k)
  /\ lines' = Append(lines, k)
  /\ resume_text' = JoinLines(ResumeBlocks, lines')
  /\ phase' = "pending"
  /\ UNCHANGED <<api_vars, hash_seed, lang_detection, det, _analyzer, constructed, thread_vars,
                 job_description, prev, call, result, ats, ats_score, category>>

NextATS ==
  \/ AnalyzeText
  \/ ScoreATS
  \/ \E k \in 1..Len(ResumeBlocks) : AddBlock(k)

SpecATS == InitATS /\ [][NextATS]_vars

(***************************************************************************)
(* get_analyzer() called by handler threads: its statements interleave     *)
(***************************************************************************)
InitThreads ==
  /\ InitProcess
  /\ InitRequest
  /\ lang_detection = FALSE
  /\ det = DetRaises
  /\ job_description = <<>>

(* line 386: if _analyzer is None *)
GetAnalyzerCheck(t) ==
  /\ pc[t] = "check"
  /\ pc' = [pc EXCEPT ![t] = IF _analyzer = NoAnalyzer THEN "construct" ELSE "return"]
  /\ UNCHANGED <<api_vars, hash_seed, lang_detection, det, _analyzer, constructed, inst, analyzer,
                 request_vars>>

(* line 387, the right-hand side: ResumeAnalyzer(use_multilingual=True) *)
GetAnalyzerConstruct(t) ==
  /\ pc[t] = "construct"
  /\ \E load \in LoadOutcomes :
       inst' = [inst EXCEPT ![t] = ResumeAnalyzer(constructed + 1, TRUE, load)]
  /\ constructed' = constructed + 1
  /\ pc' = [pc EXCEPT ![t] = "assign"]
  /\ UNCHANGED <<api_vars, hash_seed, lang_detection, det, _analyzer, analyzer, request_vars>>

(* line 387, the store to the global *)
GetAnalyzerAssign(t) ==
  /\ pc[t] = "assign"
  /\ _analyzer' = inst[t]
  /\ pc' = [pc EXCEPT ![t] = "return"]
  /\ UNCHANGED <<api_vars, hash_seed, lang_detection, det, constructed, inst, analyzer, request_vars>>

(* line 388: return _analyzer; the thread's next request calls again *)
GetAnalyzerReturn(t) ==
  /\ pc[t] = "return"
  /\ analyzer' = [analyzer EXCEPT ![t] = _analyzer]
  /\ pc' = [pc EXCEPT ![t] = "check"]
  /\ UNCHANGED <<api_vars, hash_seed, lang_detection, det, _analyzer, constructed, inst, request_vars>>

NextThreads ==
  \E t \in Threads :
    \/ GetAnalyzerCheck(t)
    \/ GetAnalyzerConstruct(t)
    \/ GetAnalyzerAssign(t)
    \/ GetAnalyzerReturn(t)

SpecThreads == InitThreads /\ [][NextThreads]_vars


(***************************************************************************)
(* The scorer's five category methods, each called on its own on resumes   *)
(* built from blocks                                                       *)
(***************************************************************************)
InitScorer ==
  /\ InitProcess
  /\ InitRequest
  /\ hash_seed = 1
  /\ lang_detection = FALSE
  /\ det = DetRaises
  /\ job_description = <<>>

(* ATSScorer()._score_formatting(resume_text) *)
ScoreFormatting ==
  /\ phase = "pending"
  /\ category' = [method |-> "_score_formatting", skills_found |-> <<>>, missing |-> <<>>,
                  returned |-> _score_formatting(resume_text)]
  /\ phase' = "scored"
  /\ UNCHANGED <<api_vars, hash_seed, lang_detection, det, _analyzer, constructed, thread_vars,
                 lines, resume_text, job_description, prev, call, result, ats, ats_score>>

(* ATSScorer()._score_sections(resume_text) *)
ScoreSections ==
  /\ phase = "pending"
  /\ category' = [method |-> "_score_sections", skills_found |-> <<>>, missing |-> <<>>,
                  returned |-> _score_sections(resume_text)]
  /\ phase' = "scored"
  /\ UNCHANGED <<api_vars, hash_seed, lang_detection, det, _analyzer, constructed, thread_vars,
                 lines, resume_text, job_description, prev, call, result, ats, ats_score>>

(* ATSScorer()._score_keywords(resume_text, job_description, skills_found, missing) *)
ScoreKeywords ==
  /\ phase = "pending"
  /\ \E kw \in KeywordLists :
       category' = [method |-> "_score_keywords", skills_found |-> kw.skills_found,
                    missing |-> kw.missing,
                    returned |-> _score_keywords(resume_text, job_description,
                                                 kw.skills_found, kw.missing)]
  /\ phase' = "scored"
  /\ UNCHANGED <<api_vars, hash_seed, lang_detection, det, _analyzer, constructed, thread_vars,
                 lines, resume_text, job_description, prev, call, result, ats, ats_score>>

(* ATSScorer()._score_contact(resume_text) *)
ScoreContact ==
  /\ phase = "pending"
  /\ category' = [method |-> "_score_contact", skills_found |-> <<>>, missing |-> <<>>,
                  returned |-> _score_contact(resume_text)]
  /\ phase' = "scored"
  /\ UNCHANGED <<api_vars, hash_seed, lang_detection, det, _analyzer, constructed, thread_vars,
                 lines, resume_text, job_description, prev, call, result, ats, ats_score>>

(* ATSScorer()._score_content(resume_text) *)
ScoreContent ==
  /\ phase = "pending"
  /\ category' = [method |-> "_score_content", skills_found |-> <<>>, missing |-> <<>>,
                  returned |-> _score_content(resume_text)]
  /\ phase' = "scored"
  /\ UNCHANGED <<api_vars, hash_seed, lang_detection, det, _analyzer, constructed, thread_vars,
                 lines, resume_text, job_description, prev, call, result, ats, ats_score>>

(* the next resume: a block more than the last one; the category returned
   for the last one is dropped *)
NextResume(k) ==
  /\ phase = "scored"
  /\ Len(lines) < MaxResumeLines
  /\ k \in 1..Len(ScorerBlocks)
  /\ (IF lines = <<>> THEN TRUE ELSE lines[Len(lines)] < k)
  /\ lines' = Append(lines, k)
  /\ resume_text' = JoinLines(ScorerBlocks, lines')
  /\ category' = NoCall
  /\ phase' = "pending"
  /\ UNCHANGED <<api_vars, hash_seed, lang_detection, det, _analyzer, constructed, thread_vars,
                 job_description, prev, call, result, ats, ats_score>>

NextScorer ==
  \/ ScoreFormatting
  \/ ScoreSections
  \/ ScoreKeywords
  \/ ScoreContact
  \/ ScoreContent
  \/ \E k \in 1..Len(ScorerBlocks) : NextResume(k)

SpecScorer == InitScorer /\ [][NextScorer]_vars
(***************************************************************************)
(* skills/__init__.py: get_skills_for_language as its callers use it       *)
(***************************************************************************)
MaxCodeLen == 2

(* the characters the language codes asked for are written with *)
CodeLetters == {"e", "n", "s", "f", "r", "d", "z", "a", "h", "-"}

(* the codes asked for: every string of at most MaxCodeLen letters, and the
   two codes of the table that are longer *)
LangCodes ==
  UNION {[1..n -> CodeLetters] : n \in 0..MaxCodeLen} \cup
  {<<"z","h","-","c","n">>, <<"z","h","-","t","w">>}

InitSkills ==
  /\ InitProcess
  /\ InitRequest
  /\ hash_seed = 1
  /\ lang_detection = FALSE
  /\ det = DetRaises
  /\ job_description = <<>>

(* get_skills_for_language(lang_code): dict.get with a default and
   set.union raise nothing and build a new set; the two module-level tables
   are as they were.  The function keeps nothing between calls, so a
   behaviour follows one call *)
GetSkillsForLanguage(lang_code) ==
  /\ lookup = NoCall
  /\ lookup' = [done     |-> TRUE,
                lang_code |-> lang_code,
                raised   |-> FALSE,
                returned |-> get_skills_for_language(lang_code),
                SKILLS_BY_LANGUAGE |-> SKILLS_BY_LANGUAGE,
                UNIVERSAL_SKILLS   |-> UNIVERSAL_SKILLS]
  /\ UNCHANGED <<hash_seed, lang_detection, det, _analyzer, constructed, thread_vars,
                 request_vars, detected, files, results, response>>

NextSkills == \E lang_code \in LangCodes : GetSkillsForLanguage(lang_code)

SpecSkills == InitSkills /\ [][NextSkills]_vars

(***************************************************************************)
(* language_detector.py: detect_language as its callers use it             *)
(***************************************************************************)
MaxTextLen == 21

DetEmpty == [kind |-> "empty", lang |-> <<>>, prob |-> 0]

(* what detect_langs can do: raise, return an empty list, or return a list
   that opens with a candidate *)
DetectorOutcomes ==
  {DetRaises, DetEmpty, DetTop(<<"f","r">>, 85), DetTop(<<"z","h">>, 99), DetTop(<<"x","x">>, 50)}

(* the texts submitted: n letters between white space *)
DetectTexts ==
  {before \o [i \in 1..n |-> "x"] \o after :
     n \in 0..MaxTextLen, before \in {<<>>, <<" ">>}, after \in {<<>>, <<"\n">>}}

InitDetect ==
  /\ InitProcess
  /\ InitRequest
  /\ hash_seed = 1
  /\ lang_detection = TRUE
  /\ det = DetRaises
  /\ job_description = <<>>

(* detect_language(text) while detect_langs answers d: every exception is
   caught inside the function *)
DetectLanguage(text, d) ==
  /\ detected' = [done     |-> TRUE,
                  text     |-> text,
                  det      |-> d,
                  raised   |-> FALSE,
                  returned |-> detect_language(text, d)]
  /\ det' = d
  /\ UNCHANGED <<hash_seed, lang_detection, _analyzer, constructed, thread_vars,
                 request_vars, lookup, files, results, response>>

NextDetect == \E text \in DetectTexts, d \in DetectorOutcomes : DetectLanguage(text, d)

SpecDetect == InitDetect /\ [][NextDetect]_vars

(***************************************************************************)
(* security/file_validator.py                                              *)
(***************************************************************************)
(* os.path.basename *)
basename(p) ==
  LET sep == {i \in 1..Len(p) : p[i] = "/"}
  IN  IF sep = {} THEN p
      ELSE SubSeq(p, (CHOOSE i \in sep : \A j \in sep : j <= i) + 1, Len(p))

(* os.path.splitext: <<root, ext>>; a dot that only dots precede opens no
   extension *)
splitext(p) ==
  LET sep  == {i \in 1..Len(p) : p[i] = "/"}
      from == IF sep = {} THEN 1 ELSE (CHOOSE i \in sep : \A j \in sep : j <= i) + 1
      dots == {i \in from..Len(p) : p[i] = "."}
      dot  == IF dots = {} THEN 0 ELSE CHOOSE i \in dots : \A j \in dots : j <= i
  IN  IF dot > 0 /\ (\E k \in from..(dot - 1) : p[k] /= ".")
      THEN <<SubSeq(p, 1, dot - 1), SubSeq(p, dot, Len(p))>>
      ELSE <<p, <<>>>>

(* re.sub(r'\.\.', '_', s): in every run of dots the pairs from the left
   become "_" each, and a dot left over stays *)
SubDotDot(s) ==
  LET start(i) == CHOOSE j \in 1..i : /\ \A k \in j..i : s[k] = "."
                                      /\ (j = 1 \/ s[j - 1] /= ".")
      marked == [i \in 1..Len(s) |->
                   IF s[i] /= "." THEN s[i]
                   ELSE IF (i - start(i)) % 2 = 1 THEN ""
                   ELSE IF i < Len(s) /\ s[i + 1] = "." THEN "_"
                   ELSE "."]
  IN  SelectSeq(marked, LAMBDA c : c /= "")

(* line 93: the longest stem sanitize_filename keeps *)
MaxStemLength == 100

(* sanitize_filename(filename): [filename, was_modified].  The patterns of
   DANGEROUS_PATTERNS are applied in their order; of the control characters
   the model writes the tab, the line feed and the carriage return *)
sanitize_filename(original) ==
  LET SubChars(s, bad) == [i \in 1..Len(s) |-> IF s[i] \in bad THEN "_" ELSE s[i]]
      OnlyDots(s)      == IF s /= <<>> /\ \A i \in 1..Len(s) : s[i] = "." THEN <<"_">> ELSE s
      Edges(s)         == [i \in 1..Len(s) |-> IF i \in {1, Len(s)} /\ IsSpace(s[i]) THEN "_" ELSE s[i]]
      (* lines 92-95: name[:100] + ext of the parts (name, ext) *)
      Limited(parts) ==
        (IF Len(parts[1]) > MaxStemLength THEN SubSeq(parts[1], 1, MaxStemLength) ELSE parts[1])
          \o parts[2]
      (* lines 98-99 *)
      NotEmpty(filename, ext) ==
        IF filename = <<>> \/ filename = ext
        THEN <<"u", "n", "n", "a", "m", "e", "d", "_", "f", "i", "l", "e">> \o ext ELSE filename
      Named(parts) == NotEmpty(Limited(parts), parts[2])
      (* lines 101-102 *)
      Returned(filename) == [filename |-> filename, was_modified |-> filename /= original]
  IN  Returned(Named(splitext(
        Edges(OnlyDots(SubChars(SubChars(SubDotDot(basename(original)),
                                         {"<", ">", ":", "\"", "|", "?", "*"}),
                                {"\t", "\n", "\r"}))))))

(* the keys of ALLOWED_MIME_TYPES, which are also the handlers'
   allowed_extensions *)
ALLOWED_EXTENSIONS ==
  {<<".", "p", "d", "f">>, <<".", "d", "o", "c", "x">>, <<".", "t", "x", "t">>, <<".", "r", "t", "f">>, <<".", "h", "t", "m", "l">>, <<".", "h", "t", "m">>}

(* a value that is None, and the string s *)
None == [none |-> TRUE]

Str(s) == [none |-> FALSE, str |-> s]

(* full_file_validation(file.filename, content): [is_valid, error,
   safe_filename].  Of the content the model keeps what the validators read:
   size is "empty", "ok" or "large" (len(content) against MAX_FILE_SIZE) and
   mime is what validate_mime_type answers, "ok", "mismatch" or "error" *)
full_file_validation(file) ==
  LET Error(ext) ==
        IF ext \notin ALLOWED_EXTENSIONS THEN Str("Unsupported file type")
        ELSE IF file.size = "large" THEN Str("File too large")
        ELSE IF file.size = "empty" THEN Str("File is empty")
        ELSE IF file.mime = "mismatch" THEN Str("File content doesn't match extension")
        ELSE IF file.mime = "error" THEN Str("MIME validation error")
        ELSE None
      Returned(safe_filename, error) ==
        [is_valid |-> error = None, error |-> error, safe_filename |-> safe_filename]
      Validated(safe_filename) ==
        Returned(safe_filename, Error(Lower(splitext(safe_filename)[2])))
  IN  Validated(sanitize_filename(file.filename).filename)

(***************************************************************************)
(* main.py: the upload handlers                                            *)
(***************************************************************************)
MaxBatchFiles == 2

(* line 604: the most files batch_analyze takes *)
MaxFilesPerBatch == 50

(* an uploaded file: its name, what the validators read of its content
   (size, mime), whether the extraction library raises on it, the text the
   extraction yields, and whether analyze_text raises on that text *)
BatchFileKinds ==
  {[filename |-> <<"c", "v", ".", "t", "x", "t">>, size |-> "ok", mime |-> "ok", raises |-> FALSE, text |-> <<"p", "y", "t", "h", "o", "n", " ", "d", "j", "a", "n", "g", "o", " ", "a", "w", "s", " ", "d", "e", "v", "e", "l", "o", "p", "e", "r">>, analysis |-> "ok"],
   [filename |-> <<"m", "y", "_", "r", "e", "s", "u", "m", "e", ".", "p", "d", "f">>, size |-> "ok", mime |-> "ok", raises |-> FALSE, text |-> <<"D", "j", "a", "n", "g", "o", " ", "d", "e", "v", "e", "l", "o", "p", "e", "r", ",", " ", "5", " ", "y", "e", "a", "r", "s">>, analysis |-> "ok"],
   [filename |-> <<"n", "o", "t", "e", "s", ".", "e", "x", "e">>, size |-> "ok", mime |-> "ok", raises |-> FALSE, text |-> <<"p", "y", "t", "h", "o", "n", " ", "d", "j", "a", "n", "g", "o", " ", "a", "w", "s", " ", "d", "e", "v", "e", "l", "o", "p", "e", "r">>, analysis |-> "ok"],
   [filename |-> <<"b", "r", "o", "k", "e", "n", ".", "d", "o", "c", "x">>, size |-> "ok", mime |-> "ok", raises |-> TRUE, text |-> <<>>, analysis |-> "ok"],
   [filename |-> <<"c", "v", ".", "h", "t", "m", "l">>, size |-> "ok", mime |-> "ok", raises |-> FALSE, text |-> <<"p", "y", "t", "h", "o", "n", " ", "d", "j", "a", "n", "g", "o", " ", "a", "w", "s", " ", "d", "e", "v", "e", "l", "o", "p", "e", "r">>, analysis |-> "raises"]}

UploadFiles ==
  BatchFileKinds \cup
  {[filename |-> <<"e", "m", "p", "t", "y", ".", "t", "x", "t">>, size |-> "empty", mime |-> "ok", raises |-> FALSE, text |-> <<>>, analysis |-> "ok"],
   [filename |-> <<"b", "i", "g", ".", "p", "d", "f">>, size |-> "large", mime |-> "ok", raises |-> FALSE, text |-> <<"p", "y", "t", "h", "o", "n", " ", "d", "j", "a", "n", "g", "o", " ", "a", "w", "s", " ", "d", "e", "v", "e", "l", "o", "p", "e", "r">>, analysis |-> "ok"],
   [filename |-> <<"f", "a", "k", "e", ".", "p", "d", "f">>, size |-> "ok", mime |-> "mismatch", raises |-> FALSE, text |-> <<"p", "y", "t", "h", "o", "n", " ", "d", "j", "a", "n", "g", "o", " ", "a", "w", "s", " ", "d", "e", "v", "e", "l", "o", "p", "e", "r">>, analysis |-> "ok"],
   [filename |-> <<"o", "d", "d", ".", "r", "t", "f">>, size |-> "ok", mime |-> "error", raises |-> FALSE, text |-> <<"p", "y", "t", "h", "o", "n", " ", "d", "j", "a", "n", "g", "o", " ", "a", "w", "s", " ", "d", "e", "v", "e", "l", "o", "p", "e", "r">>, analysis |-> "ok"],
   [filename |-> <<"s", "c", "a", "n", ".", "p", "d", "f">>, size |-> "ok", mime |-> "ok", raises |-> FALSE, text |-> <<"p", "y", "t", "h", "o", "n">>, analysis |-> "ok"],
   [filename |-> <<"b", "l", "a", "n", "k", ".", "h", "t", "m">>, size |-> "ok", mime |-> "ok", raises |-> FALSE, text |-> <<>>, analysis |-> "ok"],
   [filename |-> <<".", ".", "/", ".", ".", "/", "e", "t", "c", "/", "p", "a", "s", "s", "w", "d", ".", "t", "x", "t">>, size |-> "ok", mime |-> "ok", raises |-> FALSE, text |-> <<"p", "y", "t", "h", "o", "n", " ", "d", "j", "a", "n", "g", "o", " ", "a", "w", "s", " ", "d", "e", "v", "e", "l", "o", "p", "e", "r">>, analysis |-> "ok"],
   [filename |-> <<"C", "V", ".", "P", "D", "F">>, size |-> "ok", mime |-> "ok", raises |-> FALSE, text |-> <<"D", "j", "a", "n", "g", "o", " ", "d", "e", "v", "e", "l", "o", "p", "e", "r", ",", " ", "5", " ", "y", "e", "a", "r", "s">>, analysis |-> "ok"],
   [filename |-> <<>>, size |-> "ok", mime |-> "ok", raises |-> FALSE, text |-> <<"p", "y", "t", "h", "o", "n", " ", "d", "j", "a", "n", "g", "o", " ", "a", "w", "s", " ", "d", "e", "v", "e", "l", "o", "p", "e", "r">>, analysis |-> "ok"],
   [filename |-> [i \in 1..200 |-> "a"] \o <<".", "p", "d", "f">>, size |-> "ok", mime |-> "ok", raises |-> FALSE, text |-> <<"p", "y", "t", "h", "o", "n", " ", "d", "j", "a", "n", "g", "o", " ", "a", "w", "s", " ", "d", "e", "v", "e", "l", "o", "p", "e", "r">>, analysis |-> "ok"],
   [filename |-> [i \in 1..99 |-> "a"] \o <<".", "b", "b", "b", "b", "b", ".", "p", "d", "f">>, size |-> "ok", mime |-> "ok", raises |-> FALSE, text |-> <<"D", "j", "a", "n", "g", "o", " ", "d", "e", "v", "e", "l", "o", "p", "e", "r", ",", " ", "5", " ", "y", "e", "a", "r", "s">>, analysis |-> "ok"]}

(* the batches submitted: up to MaxBatchFiles files of any kind, and
   batches of MaxFilesPerBatch and MaxFilesPerBatch + 1 files with one
   resume among unsupported files *)
Batches ==
  UNION {[1..n -> BatchFileKinds] : n \in 1..MaxBatchFiles} \cup
  {[i \in 1..n |-> IF i = 25 THEN [filename |-> <<"c", "v", ".", "t", "x", "t">>, size |-> "ok", mime |-> "ok", raises |-> FALSE, text |-> <<"p", "y", "t", "h", "o", "n", " ", "d", "j", "a", "n", "g", "o", " ", "a", "w", "s", " ", "d", "e", "v", "e", "l", "o", "p", "e", "r">>, analysis |-> "ok"]
                   ELSE [filename |-> <<"n", "o", "t", "e", "s", ".", "e", "x", "e">>, size |-> "ok", mime |-> "ok", raises |-> FALSE, text |-> <<"p", "y", "t", "h", "o", "n", " ", "d", "j", "a", "n", "g", "o", " ", "a", "w", "s", " ", "d", "e", "v", "e", "l", "o", "p", "e", "r">>, analysis |-> "ok"]] :
     n \in {MaxFilesPerBatch, MaxFilesPerBatch + 1}}

(* the resume texts posted to /analyze *)
ApiTexts == {<<>>, <<"p", "y", "t", "h", "o", "n", " ", "d", "j", "a", "n", "g", "o", " ", "a", "w", "s", " ", "d", "e", "v", "e", "l", "o", "p", "e", "r">>, <<"D", "j", "a", "n", "g", "o", " ", "d", "e", "v", "e", "l", "o", "p", "e", "r", ",", " ", "5", " ", "y", "e", "a", "r", "s">>, ResumeBlocks[4]}

(* the job descriptions posted: with skills, of fewer than 10 trimmed
   characters, empty *)
ApiJobTexts == {JobTexts[3], <<" ", " ", "d", "j", "a", "n", "g", "o", " ", " ", " ">>, <<>>}

(* variant of IsSuspicious: a score of 95.0 exactly is not flagged *)
IsSuspiciousAbove(score) == score > 950

(* variant of IsSuspicious: nothing is flagged *)
NeverSuspicious(score) == FALSE

(* line 289, lines 529 and 670: score >= 95.0, the score in tenths *)
IsSuspicious(score) == score >= 950

(* analyzer.analyze_text(text, job_description) on the instance a: the
   local variables it can end with *)
analyze_text(a, text, job, available, d, seed) ==
  UNION {{analyze_text_locals(x, text, job, a.model /= "None", emb, seed) :
            emb \in (IF x.jd_skills = {} /\ a.model /= "None" THEN EmbedOutcomes
                     ELSE {EmbNotCalled})} :
         x \in {analyze_text_skills(text, job, available, d)}}

(* what the three handlers build from the result of analyze_text: the
   fields of AnalyzeResponse and of BatchFileItem they share; round(score, 1)
   leaves the rounded score of the result as it is, and score_ats is
   called with the lists of the result *)
AnalyzeResponse(res, suspicious, text, job, reason) ==
  [score             |-> res.score,
   suspicious        |-> suspicious,
   suspicious_reason |-> IF suspicious THEN Str(reason) ELSE None,
   skills_found      |-> Take(res.skills_found, 10),
   missing_keywords  |-> Take(res.missing_keywords, 8),
   feedback          |-> res.feedback,
   ats_score         |-> score_ats(text, job, res.skills_found, res.missing_keywords)]

(* result = analyzer.analyze_text(...), score = round(result["score"], 1),
   suspicious = score >= 95.0, and the response built from them *)
Analysed(locals, text, job, reason) ==
  AnalyzeResponse(analyze_text_result(locals), IsSuspicious(analyze_text_result(locals).score),
                  text, job, reason)

(* BatchFileItem(filename=..., error=...): the other fields at their
   defaults *)
BatchFileItem(filename, error) ==
  [filename |-> filename, score |-> 0, suspicious |-> FALSE, suspicious_reason |-> None,
   skills_found |-> <<>>, missing_keywords |-> <<>>, feedback |-> None, ats_score |-> None,
   error |-> error]

(* lines 443-470 and 625-650: the upload of a valid file up to the
   extraction of its text: an error message or None *)
ExtractionError(file, v) ==
  IF ~v.is_valid THEN v.error
  ELSE IF Lower(splitext(v.safe_filename)[2]) \notin ALLOWED_EXTENSIONS THEN Str("Unsupported file type")
  ELSE IF file.raises THEN Str("str(e)")
  ELSE IF file.text = <<>> \/ Len(file.text) < 10 THEN Str("Could not extract text")
  ELSE None

(* process_single(file) with the analyzer a: the outcomes [item, called,
   locals]; called tells whether get_analyzer() was reached *)
process_single(file, job, a, available, d, seed) ==
  UNION {IF error /= None
         THEN {[item |-> BatchFileItem(file.filename, error), called |-> FALSE, locals |-> NoCall]}
         ELSE IF file.analysis = "raises"
         THEN {[item |-> BatchFileItem(file.filename, Str("str(e)")), called |-> TRUE, locals |-> NoCall]}
         ELSE {[item   |-> Analysed(locals, file.text, job, "Score >= 95% indicates possible JD copy-paste.")
                           @@ BatchFileItem(file.filename, None),
                called |-> TRUE,
                locals |-> locals] : locals \in analyze_text(a, file.text, job, available, d, seed)} :
         error \in {ExtractionError(file, full_file_validation(file))}}

(* what the upload handlers leave alone *)
handler_unchanged ==
  <<hash_seed, lang_detection, det, thread_vars, phase, lines, resume_text, job_description,
    prev, result, ats, ats_score, category, lookup, detected>>

InitAPI ==
  /\ InitProcess
  /\ InitRequest
  /\ hash_seed = 1
  /\ lang_detection = FALSE
  /\ det = DetRaises
  /\ job_description \in ApiJobTexts

(* no request has arrived yet: a behaviour follows one request from its
   arrival to its response *)
Idle == files = <<>> /\ response = NoCall

(* batch_analyze is in its loop *)
InLoop == files /= <<>> /\ response = NoCall

HTTPException(endpoint, status_code, detail) ==
  [done |-> TRUE, endpoint |-> endpoint, status |-> status_code, body |-> [detail |-> detail]]

Response(endpoint, body) ==
  [done |-> TRUE, endpoint |-> endpoint, status |-> 200, body |-> body]

(* get_analyzer() in a handler: the instance a is kept in _analyzer *)
Obtained(a) ==
  /\ _analyzer' = a
  /\ constructed' = IF _analyzer = NoAnalyzer THEN constructed + 1 ELSE constructed

(* POST /analyze with resume_text and no file_path: get_analyzer() is
   called first, an empty resume_text is answered with score 0.0, and
   score_ats is called for a resume_text that is not empty *)
AnalyzeResume(text) ==
  /\ Idle
  /\ \E a \in get_analyzer :
       /\ Obtained(a)
       /\ \E locals \in (IF text = <<>> THEN {NoCall}
                         ELSE analyze_text(a, text, job_description, lang_detection, det, hash_seed)) :
            /\ call' = locals
            /\ response' = Response("/analyze",
                 IF text = <<>>
                 THEN [score |-> 0, suspicious |-> IsSuspicious(0), suspicious_reason |-> None,
                       skills_found |-> <<>>, missing_keywords |-> <<>>,
                       feedback |-> Str("No resume text or valid file provided"),
                       language |-> None, ats_score |-> None]
                 ELSE Analysed(locals, text, job_description,
                               "Score >= 95% indicates possible JD copy-paste. Manual review required.")
                      @@ [language |-> locals.language_info])
  /\ files' = <<>>
  /\ results' = <<>>
  /\ UNCHANGED handler_unchanged

(* POST /extract-text *)
ExtractText(file) ==
  /\ Idle
  /\ \E v \in {full_file_validation(file)} :
         response' =
           IF ~v.is_valid THEN HTTPException("/extract-text", 400, v.error)
           ELSE IF file.raises THEN HTTPException("/extract-text", 500, Str("Failed to extract text"))
           ELSE Response("/extract-text",
                         [filename |-> v.safe_filename, text |-> file.text, length |-> Len(file.text)])
  /\ files' = <<file>>
  /\ results' = <<>>
  /\ call' = NoCall
  /\ UNCHANGED <<handler_unchanged, _analyzer, constructed>>

(* POST /analyze-file: the failures of process_single are answered with
   status 400, or 500 when an exception was caught *)
AnalyzeFile(file) ==
  /\ Idle
  /\ \E a \in get_analyzer :
       \E r \in process_single(file, job_description, a, lang_detection, det, hash_seed) :
         /\ IF r.called THEN Obtained(a) ELSE UNCHANGED <<_analyzer, constructed>>
         /\ call' = r.locals
         /\ response' =
              IF r.item.error = None
              THEN Response("/analyze-file",
                            [k \in DOMAIN r.item \ {"filename", "error"} |-> r.item[k]]
                            @@ [language |-> r.locals.language_info])
              ELSE HTTPException("/analyze-file",
                                 IF r.item.error = Str("str(e)") THEN 500 ELSE 400, r.item.error)
  /\ files' = <<file>>
  /\ results' = <<>>
  /\ UNCHANGED handler_unchanged

(* POST /batch-analyze, lines 604-608: the request is rejected, or the
   loop over the files begins *)
BatchAnalyze(fs) ==
  /\ Idle
  /\ files' = fs
  /\ results' = <<>>
  /\ call' = NoCall
  /\ response' =
       IF Len(fs) > MaxFilesPerBatch
       THEN HTTPException("/batch-analyze", 400, Str("Maximum 50 files per batch"))
       ELSE IF job_description = <<>> \/ Len(Strip(job_description)) < 10
       THEN HTTPException("/batch-analyze", 400, Str("Job description must be at least 10 characters"))
       ELSE NoCall
  /\ UNCHANGED <<handler_unchanged, _analyzer, constructed>>

(* lines 711-713: one turn of the loop, results.append(await
   process_single(f)) *)
ProcessSingle ==
  /\ InLoop
  /\ Len(results) < Len(files)
  /\ \E a \in get_analyzer :
       \E r \in process_single(files[Len(results) + 1], job_description, a,
                               lang_detection, det, hash_seed) :
         /\ IF r.called THEN Obtained(a) ELSE UNCHANGED <<_analyzer, constructed>>
         /\ call' = IF r.locals = NoCall THEN call ELSE r.locals
         /\ results' = Append(results, r.item)
  /\ UNCHANGED <<handler_unchanged, files, response>>

(* variant of Failed: the items up to the first that has an error *)
FailedLeading(items) ==
  Cardinality({i \in 1..Len(items) : \A j \in 1..i : items[j].error /= None})

(* line 716: sum(1 for r in results if r.error is not None) *)
Failed(items) == Cardinality({i \in 1..Len(items) : items[i].error /= None})

(* lines 715-722: the response of the batch *)
BatchReturn ==
  /\ InLoop
  /\ Len(results) = Len(files)
  /\ response' = Response("/batch-analyze",
       [total      |-> Len(files),
        successful |-> Cardinality({i \in 1..Len(results) : results[i].error = None}),
        failed     |-> Failed(results),
        results    |-> results])
  /\ UNCHANGED <<handler_unchanged, _analyzer, constructed, call, files, results>>

NextAPI ==
  \/ \E text \in ApiTexts : AnalyzeResume(text)
  \/ \E file \in UploadFiles : ExtractText(file)
  \/ \E file \in UploadFiles : AnalyzeFile(file)
  \/ \E fs \in Batches : BatchAnalyze(fs)
  \/ ProcessSingle
  \/ BatchReturn

SpecAPI == InitAPI /\ [][NextAPI]_vars

(***************************************************************************)
(* Properties                                                              *)
(***************************************************************************)
(* C1: whatever the inputs (empty texts, any skill sets, any embedding
   similarity in [-1, 1], or no model), the score that
   calculate_semantic_similarity returns lies in [0, 100], and the
   overall_score of ATSScorer.score lies in [0, 100] (in tenths, 0..1000) *)
C1_ScoresInRange ==
  /\ call.done => (RGe(call.score, RInt(0)) /\ RLe(call.score, RInt(100)))
  /\ ats /= NoCall => ats.overall_score \in 0..1000

(* a resume scored by both scorers whose match score was clamped at 0:
   no skills in the job description and an embedding similarity of -1 *)
C1_Witness ==
  /\ ats /= NoCall
  /\ call.done /\ call.has_model /\ call.emb = EmbSim(-1, 1)
  /\ call.score = RInt(0)
  /\ ats.overall_score > 0

(* C2: in every result of analyze_text, skills_found and missing_keywords
   have no label in common *)
C2_FoundMissingDisjoint ==
  /\ call.done => Range(call.skills_found) \cap Range(call.missing_keywords) = {}
  /\ result.done => Range(result.skills_found) \cap Range(result.missing_keywords) = {}

(* a result with skills found and keywords missing *)
C2_Witness ==
  /\ result.done
  /\ result.skills_found /= <<>>
  /\ result.missing_keywords /= <<>>

(* C3: for one job description with at least one recognisable skill and one
   language code, if the skill set and the token set of the later resume
   contain those of the earlier one, the later match score is not lower *)
C3_Monotone ==
  ( /\ prev.done /\ call.done
    /\ prev.job_description = call.job_description
    /\ prev.language_info.language_code = call.language_info.language_code
    /\ call.jd_skills /= {}
    /\ prev.resume_skills \subseteq call.resume_skills
    /\ prev.resume_words \subseteq call.resume_words )
  => RLe(prev.score, call.score)

(* a resume that gained skills of the job description and scored higher *)
C3_Witness ==
  /\ prev.done /\ call.done
  /\ call.jd_skills /= {}
  /\ prev.resume_skills \subseteq call.resume_skills
  /\ prev.resume_words \subseteq call.resume_words
  /\ (prev.resume_skills \cap call.jd_skills) /= (call.resume_skills \cap call.jd_skills)
  /\ (call.resume_skills \ prev.resume_skills) \ call.jd_skills /= {}
  /\ RLt(prev.score, call.score)

(* C5: the analyzer is constructed at most once per process, also when
   several threads call get_analyzer() while it is still None, and every
   call returns the one instance *)
C5_ConstructedOnce ==
  /\ constructed <= 1
  /\ \A t, u \in Threads :
       (analyzer[t] /= NoAnalyzer /\ analyzer[u] /= NoAnalyzer) => analyzer[t] = analyzer[u]

(* C6: when the job description has skills, the score is
   clamp(skillScore + wordBonus + ratioBonus + countBonus) with
   matchRatio = m/t, skillScore = 20 + 70 m/t in [20, 90],
   wordBonus = min(20 o/j, 15) (5 when the job's token set is empty),
   ratioBonus 5 or 3 at matchRatio >= 1 or >= 0.8, countBonus 3 or 2 at
   8 or 5 resume skills; m, t, o, j are the sizes of the matched skills, the
   job's skills, the common tokens and the job's tokens.  The sum is
   compared as integers over the denominator t*j (t when j = 0).  The
   remark on wordBonus is read as: it is exactly 5 whenever the job's token
   set is empty, which a job description with skills never has. *)
C6_ScoreFormula ==
  /\ (call.done /\ call.jd_words = {}) => (call.word_bonus = RInt(5) /\ call.jd_skills = {})
  /\ (call.done /\ call.jd_skills /= {}) =>
      LET m  == Cardinality(call.resume_skills \cap call.jd_skills)
          t  == Cardinality(call.jd_skills)
          o  == Cardinality(call.resume_words \cap call.jd_words)
          j  == Cardinality(call.jd_words)
          r  == Cardinality(call.resume_skills)
          rb == IF m >= t THEN 5 ELSE IF 10 * m >= 8 * t THEN 3 ELSE 0
          cb == IF r >= 8 THEN 3 ELSE IF r >= 5 THEN 2 ELSE 0
          den == IF j > 0 THEN t * j ELSE t
          wb  == IF j > 0 THEN Min2(20 * o * t, 15 * t * j) ELSE 5 * t
          sum == (IF j > 0 THEN 20 * t * j + 70 * m * j ELSE 20 * t + 70 * m) + wb + (rb + cb) * den
      IN  /\ call.match_ratio.n * t = call.match_ratio.d * m
          /\ call.skill_score.n * t = call.skill_score.d * (20 * t + 70 * m)
          /\ RGe(call.skill_score, RInt(20)) /\ RLe(call.skill_score, RInt(90))
          /\ call.word_bonus.n * den = call.word_bonus.d * wb
          /\ call.score.n * den = call.score.d * Min2(100 * den, Max2(0, sum))

(* a score with a ratio bonus of 3 and a count bonus *)
C6_Witness ==
  /\ call.done /\ call.jd_skills /= {}
  /\ RGe(call.match_ratio, Rat(8, 10)) /\ RLt(call.match_ratio, RInt(1))
  /\ Cardinality(call.resume_skills) >= 5
  /\ RLt(RInt(0), call.word_bonus)

(* C7: when the job description has no skills, matchRatio is 0; without a
   model, or when the embedding call raises, skillScore is 50, analyze_text
   still returns its result, and the score is min(100, 50 + wordBonus +
   countBonus), at least 50 *)
C7_FallbackFifty ==
  (call.done /\ call.jd_skills = {}) =>
    /\ call.match_ratio = RInt(0)
    /\ (~call.has_model \/ call.emb.raises) =>
         /\ call.skill_score = RInt(50)
         /\ result.done
         /\ RGe(call.score, RInt(50))
         /\ call.score = RMin(RInt(100),
                              RAdd(RAdd(RInt(50), call.word_bonus),
                                   RInt(IF Cardinality(call.resume_skills) >= 8 THEN 3
                                        ELSE IF Cardinality(call.resume_skills) >= 5 THEN 2
                                        ELSE 0)))

(* the model is loaded and the embedding call raised on a resume that
   shares words with the job description *)
C7_Witness ==
  /\ call.done /\ call.jd_skills = {}
  /\ call.has_model /\ call.emb.raises
  /\ call.jd_words /= {}
  /\ RLt(RInt(5), call.word_bonus)
  /\ call.resume_skills /= {}

(* the two texts of Scenario A, analysed with the English dictionary *)
ScenarioA ==
  /\ call.done
  /\ call.resume_text = ResumeLines[1]
  /\ call.job_description = JobTexts[1]
  /\ call.language_info.language_code = LangEN

(* C8 as stated: in Scenario A every skill of the job description is
   extracted from the resume (matchRatio = 1) and the score is at least 90 *)
C8_ScenarioA_Stated ==
  ScenarioA =>
    /\ call.jd_skills \subseteq call.resume_skills
    /\ call.match_ratio = RInt(1)
    /\ RGe(call.score, RInt(90))

(* C8: in Scenario A the job description yields eight skills and the resume
   four of them (matchRatio = 1/2); the score is 466/7, which analyze_text
   reports as 66.6: at least 60 and below 90 *)
C8_ScenarioA ==
  ScenarioA =>
    /\ Cardinality(call.jd_skills) = 8
    /\ Cardinality(call.resume_skills \cap call.jd_skills) = 4
    /\ call.match_ratio = Rat(1, 2)
    /\ call.score = Rat(466, 7)
    /\ result.score = 666
    /\ RGe(call.score, RInt(60)) /\ RLt(call.score, RInt(90))

(* Scenario A analysed; "Backend" is among the skills the resume lacks *)
C8_Witness ==
  /\ ScenarioA
  /\ Title(<<"b","a","c","k","e","n","d">>) \in Range(call.missing_keywords)

(* C9: when the job description has skills and the resume has none of them,
   the score is below 40, whatever the common words and however many other
   skills the resume has *)
C9_NoMatchBelowForty ==
  (call.done /\ call.jd_skills /= {} /\ call.resume_skills \cap call.jd_skills = {})
  => RLt(call.score, RInt(40))

(* no skill matched, the word bonus at its cap and a count bonus *)
C9_Witness ==
  /\ call.done /\ call.jd_skills /= {}
  /\ call.resume_skills \cap call.jd_skills = {}
  /\ call.word_bonus = RInt(15)
  /\ Cardinality(call.resume_skills) >= 5

(* C10: for one job description with skills, a resume with all of the job's
   skills scores strictly higher than a resume with none of them *)
C10_AllAboveNone ==
  ( /\ prev.done /\ call.done
    /\ prev.job_description = call.job_description
    /\ prev.language_info.language_code = call.language_info.language_code
    /\ call.jd_skills /= {}
    /\ prev.resume_skills \cap call.jd_skills = {}
    /\ call.jd_skills \subseteq call.resume_skills )
  => RLt(prev.score, call.score)

(* a resume without any of the job's skills, then one with all of them *)
C10_Witness ==
  /\ prev.done /\ call.done
  /\ call.jd_skills /= {}
  /\ prev.resume_skills /= {}
  /\ prev.resume_skills \cap call.jd_skills = {}
  /\ call.jd_skills \subseteq call.resume_skills


(* C11: every ATSScorer.score result has exactly the five categories
   Formatting & Parsability, Section Structure, Keyword Optimization,
   Contact Information, Content Quality, in this order, with the weights
   0.25, 0.20, 0.25, 0.10, 0.20 (here in hundredths), which sum to 1, also
   when the keyword category comes from its early return *)
C11_FiveCategories ==
  ats_score /= NoCall =>
    /\ [c \in DOMAIN ats_score.categories |-> ats_score.categories[c].name] =
         <<"Formatting & Parsability", "Section Structure", "Keyword Optimization",
           "Contact Information", "Content Quality">>
    /\ [c \in DOMAIN ats_score.categories |-> ats_score.categories[c].weight] =
         <<25, 20, 25, 10, 20>>
    /\ ats_score.categories[1].weight + ats_score.categories[2].weight +
       ats_score.categories[3].weight + ats_score.categories[4].weight +
       ats_score.categories[5].weight = 100

(* a result whose keyword category is the early return: no skill found and
   none missing *)
C11_Witness ==
  /\ ats_score /= NoCall
  /\ resume_text /= <<>>
  /\ result.skills_found = <<>> /\ result.missing_keywords = <<>>
  /\ Len(ats_score.categories[3].checks) = 1

(* v tenths is n/d rounded to one decimal place, d > 0 *)
NearestTenth(v, n, d) == 2 * Abs(10 * n - v * d) <= d

(* the numerator of sum(score * weight) / sum(weight) over the common
   denominator OverallDen, the weights counted in hundredths *)
OverallNum ==
  LET c == ats_score.categories
  IN  c[1].weight * c[1].score.n * c[2].score.d * c[3].score.d * c[4].score.d * c[5].score.d +
      c[2].weight * c[2].score.n * c[1].score.d * c[3].score.d * c[4].score.d * c[5].score.d +
      c[3].weight * c[3].score.n * c[1].score.d * c[2].score.d * c[4].score.d * c[5].score.d +
      c[4].weight * c[4].score.n * c[1].score.d * c[2].score.d * c[3].score.d * c[5].score.d +
      c[5].weight * c[5].score.n * c[1].score.d * c[2].score.d * c[3].score.d * c[4].score.d

OverallDen ==
  LET c == ats_score.categories
  IN  (c[1].weight + c[2].weight + c[3].weight + c[4].weight + c[5].weight) *
      c[1].score.d * c[2].score.d * c[3].score.d * c[4].score.d * c[5].score.d

(* overall_score is the weighted average of the five categories, clamped to
   [0, 100] and rounded to one decimal *)
OverallIsWeightedAverage ==
  IF OverallNum < 0 THEN ats_score.overall_score = 0
  ELSE IF OverallNum > 100 * OverallDen THEN ats_score.overall_score = 1000
  ELSE NearestTenth(ats_score.overall_score, OverallNum, OverallDen)

(* C12 as stated: overall_score is the weighted average clamped to [0, 100]
   and rounded to one decimal, and keyword_match_rate is exactly
   len(skills_found) / (len(skills_found) + len(missing_keywords)) * 100, or
   0 when that denominator is 0 *)
C12_Overall_Stated ==
  phase = "scored" =>
    LET found   == Len(result.skills_found)
        missing == Len(result.missing_keywords)
    IN  /\ OverallIsWeightedAverage
        /\ IF found + missing = 0 THEN ats_score.keyword_match_rate = 0
           ELSE ats_score.keyword_match_rate * (found + missing) = 1000 * found

(* C12: overall_score is the weighted average clamped to [0, 100] and rounded
   to one decimal, and keyword_match_rate is len(skills_found) /
   (len(skills_found) + len(missing_keywords)) * 100 rounded to one decimal,
   or 0 when that denominator is 0; both are what the dictionary reports *)
C12_Overall ==
  phase = "scored" =>
    LET found   == Len(result.skills_found)
        missing == Len(result.missing_keywords)
    IN  /\ OverallIsWeightedAverage
        /\ IF found + missing = 0 THEN ats_score.keyword_match_rate = 0
           ELSE NearestTenth(ats_score.keyword_match_rate, 100 * found, found + missing)
        /\ ats.overall_score = ats_score.overall_score
        /\ ats.keyword_match_rate = ats_score.keyword_match_rate

(* a result whose average and whose match rate both needed the rounding *)
C12_Witness ==
  /\ phase = "scored"
  /\ Len(result.skills_found) > 0 /\ Len(result.missing_keywords) > 0
  /\ ats_score.keyword_match_rate * (Len(result.skills_found) + Len(result.missing_keywords))
       /= 1000 * Len(result.skills_found)
  /\ ats_score.overall_score * OverallDen /= 10 * OverallNum
  /\ OverallNum > 0

(* the checks, and the tips, of the five categories in category order *)
AllChecks ==
  ats_score.categories[1].checks \o ats_score.categories[2].checks \o
  ats_score.categories[3].checks \o ats_score.categories[4].checks \o
  ats_score.categories[5].checks

AllTips ==
  ats_score.categories[1].tips \o ats_score.categories[2].tips \o
  ats_score.categories[3].tips \o ats_score.categories[4].tips \o
  ats_score.categories[5].tips

(* C13: critical_issues has at most 5 messages and is exactly the messages
   of the checks with severity critical that did not pass, in category order
   then check order; suggestions has at most 6 tips, the first 6 of the
   categories' tips in category order *)
C13_IssuesAndSuggestions ==
  ats_score /= NoCall =>
    LET failed == SelectSeq(AllChecks, LAMBDA check : check.severity = "critical" /\ ~check.passed)
    IN  /\ Len(ats_score.critical_issues) <= 5
        /\ ats_score.critical_issues = [k \in 1..Len(failed) |-> failed[k].message]
        /\ Len(ats_score.suggestions) <= 6
        /\ Len(ats_score.suggestions) = (IF Len(AllTips) < 6 THEN Len(AllTips) ELSE 6)
        /\ \A k \in 1..Len(ats_score.suggestions) : ats_score.suggestions[k] = AllTips[k]
        /\ ats.critical_issues = ats_score.critical_issues
        /\ ats.suggestions = ats_score.suggestions

(* a resume with several failed critical checks, a failed check that is not
   critical, and more than six tips *)
C13_Witness ==
  /\ ats_score /= NoCall
  /\ resume_text /= <<>>
  /\ Len(ats_score.critical_issues) >= 2
  /\ \E k \in 1..Len(AllChecks) : AllChecks[k].severity = "warning" /\ ~AllChecks[k].passed
  /\ Len(AllTips) > 6

(* the lines of the resume as the header/footer check splits them *)
StrippedLines == SplitAt(Strip(resume_text), "\n")

(* the first line stands again, verbatim, among the last 3 lines *)
FirstLineReappears ==
  \E j \in 2..Len(StrippedLines) :
    j >= Len(StrippedLines) - 2 /\ StrippedLines[j] = StrippedLines[1]

(* more than 5 lines, and the first line, trimmed and lower-cased, is longer
   than 5 characters and equals one of the last 3 lines, trimmed and
   lower-cased *)
HeaderFooterRepeated ==
  /\ Len(StrippedLines) > 5
  /\ Len(Strip(StrippedLines[1])) > 5
  /\ \E j \in 2..Len(StrippedLines) :
       /\ j >= Len(StrippedLines) - 2
       /\ Lower(Strip(StrippedLines[j])) = Lower(Strip(StrippedLines[1]))

(* the Formatting category of the resume is 100 less the four penalties,
   the last one taken when repeated holds, and its length check follows the
   word-count band *)
FormattingIs(repeated) ==
  LET k       == Cardinality({p \in DOMAIN ATS_PROBLEMATIC_PATTERNS :
                    \E i \in DOMAIN resume_text :
                      resume_text[i] \in ATS_PROBLEMATIC_PATTERNS[p].class})
      words   == WordCount(resume_text)
      hostile == IF 10 * k < 30 THEN 10 * k ELSE 30
      blank   == IF BlankRuns(resume_text) > 2 THEN 10 ELSE 0
      band    == IF words < 100 THEN 25 ELSE IF words < 250 THEN 10
                 ELSE IF words > 1500 THEN 5 ELSE 0
      length  == SelectSeq(category.returned.checks, LAMBDA check : check.name = "length")
  IN  /\ category.returned.score =
           RInt(100 - hostile - blank - band - (IF repeated THEN 5 ELSE 0))
      /\ Len(length) = 1
      /\ length[1].passed = (words >= 250)
      /\ length[1].severity = (IF words < 100 THEN "critical" ELSE IF words < 250 THEN "warning"
                               ELSE IF words > 1500 THEN "info" ELSE "good")
      /\ words < 100 => RLe(category.returned.score, RInt(75))

(* C14 as stated: the Formatting score is 100 less min(10k, 30) for k hostile
   character classes, 10 for more than 2 blank-line runs, the penalty of one
   length band, and 5 if the first line reappears among the last 3 lines *)
C14_Formatting_Stated ==
  (phase = "scored" /\ category.method = "_score_formatting") => FormattingIs(FirstLineReappears)

(* C14: the Formatting score is 100 less min(10k, 30) for k hostile character
   classes, 10 for more than 2 runs of blank lines, the penalty of one length
   band (under 100 words 25 with a failed critical check, 100..249 words 10
   with a failed warning, over 1500 words 5 with a passed info check), and 5
   if the resume has more than 5 lines and its first line, trimmed and
   lower-cased, is longer than 5 characters and equals one of the last 3
   lines; a resume under 100 words scores at most 75 *)
C14_Formatting ==
  (phase = "scored" /\ category.method = "_score_formatting") =>
    /\ FormattingIs(HeaderFooterRepeated)
    /\ HeaderFooterRepeated <=>
         \E k \in DOMAIN category.returned.checks :
           category.returned.checks[k].name = "header_footer"

(* a short resume of more than 5 lines whose name is repeated in capitals
   near the end *)
C14_Witness ==
  /\ phase = "scored" /\ category.method = "_score_formatting"
  /\ HeaderFooterRepeated /\ ~FirstLineReappears
  /\ category.returned.score = RInt(70)

(* how many of the named sections have one of their headers in the resume *)
SectionsFound(keys) ==
  Cardinality({k \in DOMAIN keys :
                 \E h \in DOMAIN STANDARD_SECTIONS[keys[k]] :
                   HeaderFound(Lower(resume_text), STANDARD_SECTIONS[keys[k]][h])})

(* C15: with r of the sections experience, education, skills found and b of
   summary, certifications, projects, the Section Structure score is
   80 + b*20/3 when r = 3 and max(20, 80*r/3) + b*20/3 when r < 3; it is in
   [20, 100]; a failed critical required_sections check is present exactly
   when r < 3 *)
C15_Sections ==
  (phase = "scored" /\ category.method = "_score_sections") =>
    LET r     == SectionsFound(required)
        b     == SectionsFound(bonus)
        score == category.returned.score
        base3 == IF r = 3 THEN 240 ELSE IF 80 * r > 60 THEN 80 * r ELSE 60
    IN  /\ 3 * score.n = (base3 + 20 * b) * score.d
        /\ 20 * score.d <= score.n /\ score.n <= 100 * score.d
        /\ r < 3 <=> \E k \in DOMAIN category.returned.checks :
                       /\ category.returned.checks[k].name = "required_sections"
                       /\ category.returned.checks[k].severity = "critical"
                       /\ ~category.returned.checks[k].passed

(* two required sections and a bonus section: 160/3 + 20/3 = 60 *)
C15_Witness ==
  /\ phase = "scored" /\ category.method = "_score_sections"
  /\ SectionsFound(required) = 2
  /\ SectionsFound(bonus) = 1
  /\ category.returned.score = RInt(60)

(* one of the skills headers occurs in the lower-cased resume *)
SkillsHeaderPresent ==
  \E h \in DOMAIN STANDARD_SECTIONS[required[3]] :
    Contains(Lower(resume_text), STANDARD_SECTIONS[required[3]][h])

(* one of the first 5 skills found occurs more than 8 times in the resume *)
KeywordStuffed ==
  \E k \in DOMAIN category.skills_found :
    k <= 5 /\ CountLiteral(Lower(resume_text), Lower(category.skills_found[k])) > 8

(* the Keyword Optimization category is the fixed 50 with one info check when
   no skill is found or missing, and otherwise score, given as a multiple of
   1/total *)
KeywordsIs(score) ==
  LET total == Len(category.skills_found) + Len(category.missing)
      got   == category.returned
  IN  IF total = 0
      THEN /\ got.score = RInt(50)
           /\ Len(got.checks) = 1
           /\ got.checks[1].severity = "info"
      ELSE /\ got.score.n * total = score * got.score.d
           /\ 0 <= got.score.n /\ got.score.n <= 100 * got.score.d

(* C16 as stated: matchRate * 100, plus 5 with a skills header or minus 5
   without, minus 10 once when a skill is stuffed, and the outcome bounded to
   [0, 100] *)
C16_Keywords_Stated ==
  (phase = "scored" /\ category.method = "_score_keywords") =>
    LET found == Len(category.skills_found)
        total == found + Len(category.missing)
        sum   == 100 * found + (IF SkillsHeaderPresent THEN 5 ELSE -5) * total
                   - (IF KeywordStuffed THEN 10 ELSE 0) * total
    IN  KeywordsIs(IF sum < 0 THEN 0 ELSE IF sum > 100 * total THEN 100 * total ELSE sum)

(* C16: with no skill found or missing the score is 50 with a single info
   check; otherwise it is matchRate * 100, plus 5 but at most 100 when a
   skills header occurs in the text, or minus 5 but at least 0 when none
   does, then minus 10 once when one of the first 5 skills found occurs more
   than 8 times, and the outcome bounded to [0, 100] *)
C16_Keywords ==
  (phase = "scored" /\ category.method = "_score_keywords") =>
    LET found    == Len(category.skills_found)
        total    == found + Len(category.missing)
        rated    == 100 * found
        adjusted == IF SkillsHeaderPresent
                    THEN (IF rated + 5 * total > 100 * total THEN 100 * total ELSE rated + 5 * total)
                    ELSE (IF rated - 5 * total < 0 THEN 0 ELSE rated - 5 * total)
        sum      == adjusted - (IF KeywordStuffed THEN 10 ELSE 0) * total
    IN  KeywordsIs(IF sum < 0 THEN 0 ELSE IF sum > 100 * total THEN 100 * total ELSE sum)

(* every skill found, a skills header, and a stuffed skill: 100 - 10 *)
C16_Witness ==
  /\ phase = "scored" /\ category.method = "_score_keywords"
  /\ category.skills_found /= <<>> /\ category.missing = <<>>
  /\ SkillsHeaderPresent /\ KeywordStuffed
  /\ category.returned.score = RInt(90)

(* the first line of the resume that is not blank, trimmed; empty if none *)
FirstNonEmptyLine ==
  LET full == SelectSeq(SplitAt(resume_text, "\n"), LAMBDA l : Strip(l) /= <<>>)
  IN  IF full = <<>> THEN <<>> ELSE Strip(full[1])

(* 7 characters in a row of digits, blanks, hyphens and brackets stand in
   the resume and end at or before position last *)
PhoneBy(last) ==
  \E i \in 1..(Len(resume_text) - 6) :
    /\ i + 6 <= last
    /\ \A k \in i..(i + 6) : resume_text[k] \in Digits \cup Whitespace \cup {"-", "(", ")"}

PhoneInHead == PhoneBy(500)

(* the line has 2 to 5 tokens and no digit or @ *)
NameLike(line) ==
  /\ WordCount(line) >= 2 /\ WordCount(line) <= 5
  /\ CharsOf(line) \cap (Digits \cup {"@"}) = {}

NameInFirstLine == NameLike(FirstNonEmptyLine)

(* C17: the Contact Information score is the sum of 30 for an email, 25 for a
   phone pattern in the first 500 characters, 20 for a LinkedIn profile URL
   and 25 for a first non-empty line of 2 to 5 tokens without digit or @,
   capped at 100; a resume with no email, phone or LinkedIn URL whose first
   line contains a digit scores at most 25 *)
C17_Contact ==
  (phase = "scored" /\ category.method = "_score_contact") =>
    LET email    == EmailAts(resume_text) /= {}
        linkedin == LinkedInFound(resume_text)
        sum      == (IF email THEN 30 ELSE 0) + (IF PhoneInHead THEN 25 ELSE 0) +
                    (IF linkedin THEN 20 ELSE 0) + (IF NameInFirstLine THEN 25 ELSE 0)
    IN  /\ category.returned.score = RInt(IF sum > 100 THEN 100 ELSE sum)
        /\ ( /\ ~email /\ ~PhoneInHead /\ ~linkedin
             /\ CharsOf(FirstNonEmptyLine) \cap Digits /= {} )
           => RLe(category.returned.score, RInt(25))

(* an email and a LinkedIn URL, the phone number past the first 500
   characters, and a first line of too many tokens *)
C17_Witness ==
  /\ phase = "scored" /\ category.method = "_score_contact"
  /\ EmailAts(resume_text) /= {} /\ LinkedInFound(resume_text)
  /\ ~PhoneInHead /\ PhoneBy(Len(resume_text))
  /\ ~NameInFirstLine
  /\ category.returned.score = RInt(50)

(* the action verbs that stand as whole words in the text t *)
VerbsIn(t) ==
  {verb \in ACTION_VERBS : \E i \in 1..Len(t) : t[i] = verb[1] /\ WholeWordAt(t, verb, i)}

(* C18: the Content Quality score is verbPoints + metricPoints + datePoints:
   35 for at least 8 distinct action verbs, 25 for at least 4, else 10; 35
   for at least 5 metric matches, 20 for at least 2, else 5; 30 for at least
   2 date matches, 15 for exactly 1, 0 for none, and the dates check fails as
   critical exactly when there is none; the score is between 15 and 100 *)
C18_Content ==
  (phase = "scored" /\ category.method = "_score_content") =>
    LET verbs   == Cardinality(VerbsIn(Lower(resume_text)))
        metrics == MetricsCount(resume_text)
        dates   == DatesCount(resume_text)
        sum     == (IF verbs >= 8 THEN 35 ELSE IF verbs >= 4 THEN 25 ELSE 10) +
                   (IF metrics >= 5 THEN 35 ELSE IF metrics >= 2 THEN 20 ELSE 5) +
                   (IF dates >= 2 THEN 30 ELSE IF dates = 1 THEN 15 ELSE 0)
    IN  /\ category.returned.score = RInt(sum)
        /\ RLe(RInt(15), category.returned.score)
        /\ RLe(category.returned.score, RInt(100))
        /\ dates = 0 <=> \E k \in DOMAIN category.returned.checks :
                           /\ category.returned.checks[k].name = "dates"
                           /\ category.returned.checks[k].severity = "critical"
                           /\ ~category.returned.checks[k].passed

(* between 4 and 7 verbs, at least 5 metrics and exactly one date:
   25 + 35 + 15 *)
C18_Witness ==
  /\ phase = "scored" /\ category.method = "_score_content"
  /\ Cardinality(VerbsIn(Lower(resume_text))) \in 4..7
  /\ MetricsCount(resume_text) >= 5
  /\ DatesCount(resume_text) = 1
  /\ category.returned.score = RInt(75)

(* C19: the feedback summary is excellent iff score >= 80, good iff
   60 <= score < 80, moderate iff 40 <= score < 60, low otherwise; the
   suggestions are the first 4 of: the missing keywords (its first 3) iff
   any is missing, a skills section iff fewer than 5 skills were found,
   quantify, action verbs, an English version iff the language is not en;
   so quantify and action verbs are always returned, and the English version
   exactly when the language is not en and at most one of the first two
   applies *)
C19_Feedback ==
  call.done =>
    LET score    == call.score
        feedback == result.feedback
        kinds    == [k \in DOMAIN feedback.suggestions |-> feedback.suggestions[k].kind]
        missing  == call.missing_keywords /= <<>>
        few      == Len(call.skills_found) < 5
        foreign  == call.language_info.language_code /= LangEN
        list     == (IF missing THEN <<"add_experience">> ELSE <<>>) \o
                    (IF few THEN <<"skills_section">> ELSE <<>>) \o
                    <<"quantify", "action_verbs">> \o
                    (IF foreign THEN <<"english_version">> ELSE <<>>)
    IN  /\ feedback.summary = "excellent" <=> score.n >= 80 * score.d
        /\ feedback.summary = "good" <=> (score.n >= 60 * score.d /\ score.n < 80 * score.d)
        /\ feedback.summary = "moderate" <=> (score.n >= 40 * score.d /\ score.n < 60 * score.d)
        /\ feedback.summary = "low" <=> score.n < 40 * score.d
        /\ Len(kinds) = (IF Len(list) < 4 THEN Len(list) ELSE 4)
        /\ \A k \in DOMAIN kinds : kinds[k] = list[k]
        /\ missing =>
             feedback.suggestions[1].args =
               [k \in 1..(IF Len(call.missing_keywords) < 3 THEN Len(call.missing_keywords) ELSE 3)
                  |-> call.missing_keywords[k]]
        /\ \E k \in DOMAIN kinds : kinds[k] = "quantify"
        /\ \E k \in DOMAIN kinds : kinds[k] = "action_verbs"
        /\ (\E k \in DOMAIN kinds : kinds[k] = "english_version") <=>
             (foreign /\ ~(missing /\ few))

(* a resume not in English with keywords missing and fewer than 5 skills
   found: the English-version suggestion is cut off *)
C19_Witness ==
  /\ call.done
  /\ call.language_info.language_code /= LangEN
  /\ call.missing_keywords /= <<>>
  /\ Len(call.skills_found) < 5
  /\ Len(result.feedback.suggestions) = 4
  /\ result.feedback.suggestions[4].kind = "action_verbs"

(* the term s stands in t at i, with the start of the text or a character
   that is not of a word before it, and the end of the text or a character
   that is not of a word after it *)
DelimitedAt(t, s, i) ==
  /\ MatchAt(t, s, i)
  /\ (i = 1 \/ ~IsWordChar(t[i - 1]))
  /\ (i + Len(s) > Len(t) \/ ~IsWordChar(t[i + Len(s)]))

(* the labels of the dictionary terms that stand delimited in t *)
DelimitedTerms(t, dict) ==
  {Title(s) : s \in {s \in dict : \E i \in 1..Len(t) : t[i] = s[1] /\ DelimitedAt(t, s, i)}}

(* C20: skill extraction reports a dictionary term iff the lower-cased text
   contains it as a whole word: java is not reported inside javascript, and
   a term with punctuation such as c++, c# or .net is reported whenever it
   stands in the text delimited by spaces, punctuation or the text ends *)
C20_WholeWords ==
  call.done =>
    call.resume_skills =
      DelimitedTerms(Lower(call.resume_text),
                     get_skills_dictionary(call.language_info.language_code))

(* the dictionary the claim names for each code of the language table *)
LanguageTable ==
  {<<LangEN, TECH_SKILLS_EN>>, <<<<"e","s">>, TECH_SKILLS_ES>>, <<<<"f","r">>, TECH_SKILLS_FR>>,
   <<<<"d","e">>, TECH_SKILLS_DE>>, <<<<"z","h","-","c","n">>, TECH_SKILLS_ZH>>,
   <<<<"z","h","-","t","w">>, TECH_SKILLS_ZH>>, <<<<"a","r">>, TECH_SKILLS_AR>>}

(* C21: get_skills_for_language(code) returns, for a code of the language
   table, that language's dictionary united with the universal set, and for
   any other code the English dictionary united with the universal set; for
   every code the result is not empty, holds every universal term, no error
   is raised and the shared tables are as they were *)
C21_SkillsForLanguage ==
  lookup.done =>
    /\ \A e \in LanguageTable :
         lookup.lang_code = e[1] => lookup.returned = e[2] \cup UNIVERSAL_SKILLS
    /\ (\A e \in LanguageTable : lookup.lang_code /= e[1]) =>
         lookup.returned = TECH_SKILLS_EN \cup UNIVERSAL_SKILLS
    /\ lookup.returned /= {}
    /\ UNIVERSAL_SKILLS \subseteq lookup.returned
    /\ ~lookup.raised
    /\ lookup.SKILLS_BY_LANGUAGE = SKILLS_BY_LANGUAGE
    /\ lookup.UNIVERSAL_SKILLS = UNIVERSAL_SKILLS

(* a code without a dictionary was asked for and answered with the English
   terms, among them terms that are not universal *)
C21_Witness ==
  /\ lookup.done
  /\ lookup.lang_code = <<"h","h">>
  /\ TECH_SKILLS_EN \subseteq lookup.returned
  /\ lookup.returned \ UNIVERSAL_SKILLS /= {}

(* the number of characters from the first to the last that is not white
   space *)
TrimmedLen(t) ==
  LET inked == {i \in 1..Len(t) : t[i] \notin {" ", "\n", "\t", "\r"}}
  IN  IF inked = {} THEN 0
      ELSE (CHOOSE i \in inked : \A j \in inked : j <= i) -
           (CHOOSE i \in inked : \A j \in inked : i <= j) + 1

(* the answer (code "en", confidence c in hundredths, name "English") *)
EnglishWith(c) ==
  /\ call.language_info.language_code = LangEN
  /\ call.language_info.confidence = c
  /\ call.language_info.language_name = NameEnglish

(* C22 as stated: language detection answers ("en", 1.0, "English") both
   when the language-detection collaborator is unavailable and when the
   text has fewer than 20 trimmed characters *)
C22_Default_Stated ==
  (call.done /\ (~lang_detection \/ TrimmedLen(call.resume_text) < 20)) => EnglishWith(100)

(* C22: language detection answers ("en", 1.0, "English") when the
   language-detection collaborator is unavailable, and ("en", 0.0,
   "English") when the collaborator is available and the text has fewer
   than 20 trimmed characters *)
C22_Default ==
  /\ (call.done /\ ~lang_detection) => EnglishWith(100)
  /\ (call.done /\ lang_detection /\ TrimmedLen(call.resume_text) < 20) => EnglishWith(0)

(* a text of fewer than 20 trimmed characters, not empty, analysed with a
   detector at hand that would have answered French *)
C22_Witness ==
  /\ call.done /\ lang_detection
  /\ det = DetTop(<<"f","r">>, 85)
  /\ call.resume_text /= <<>>
  /\ TrimmedLen(call.resume_text) < 20
  /\ EnglishWith(0)

(* C23: detect_language returns code "en" with confidence exactly 0.0 for
   the empty text and for any text shorter than 20 characters after
   trimming, and also whenever the underlying detector raises or returns no
   candidates; it never raises *)
C23_DetectLanguageDefaults ==
  detected.done =>
    /\ ~detected.raised
    /\ ( \/ detected.text = <<>>
         \/ TrimmedLen(detected.text) < 20
         \/ detected.det.kind \in {"raises", "empty"} )
       => (detected.returned.code = LangEN /\ detected.returned.confidence = 0)

(* a text of 20 characters that trimming leaves with 19, answered with
   "en" and 0.0 although the detector had a French candidate *)
C23_Witness ==
  /\ detected.done
  /\ Len(detected.text) = 20
  /\ detected.text[1] = " "
  /\ detected.det = DetTop(<<"f","r">>, 85)
  /\ detected.returned.code = LangEN
  /\ detected.returned.confidence = 0

(* C24: for every input filename, the result of sanitize_filename contains
   no ".." sequence and no "/" path separator, also for names whose stem is
   longer than 100 characters and is truncated; the result is read where
   the /extract-text handler returns it *)
C24_SanitizedNames ==
  (response.done /\ response.endpoint = "/extract-text" /\ response.status = 200) =>
    LET filename == response.body.filename
    IN  /\ \A i \in 1..Len(filename) : filename[i] /= "/"
        /\ \A i \in 1..(Len(filename) - 1) : ~(filename[i] = "." /\ filename[i + 1] = ".")

(* the file fails validation, text extraction or analysis *)
FileFails(file) ==
  \/ ~full_file_validation(file).is_valid
  \/ file.size /= "ok" \/ file.mime /= "ok"
  \/ file.raises
  \/ Len(file.text) < 10
  \/ file.analysis = "raises"

(* C25: for a batch request with at most 50 files and a job description of
   at least 10 trimmed characters, batch_analyze returns exactly one result
   item per submitted file, in submission order, with total = number of
   files = successful + failed; a file that fails validation, text
   extraction or analysis yields an item whose error is not null and does
   not keep the remaining files from being processed.  A request with more
   than 50 files is rejected before any file is processed. *)
C25_Batch ==
  /\ (response = NoCall /\ files /= <<>>) =>
       /\ Len(results) <= Len(files)
       /\ \A i \in 1..Len(results) : results[i].filename = files[i].filename
  /\ (response.done /\ response.endpoint = "/batch-analyze") =>
       IF Len(files) > 50 THEN response.status = 400 /\ results = <<>>
       ELSE TrimmedLen(job_description) >= 10 =>
              /\ response.status = 200
              /\ Len(response.body.results) = Len(files)
              /\ \A i \in 1..Len(files) :
                   /\ response.body.results[i].filename = files[i].filename
                   /\ FileFails(files[i]) => response.body.results[i].error /= None
              /\ response.body.total = Len(files)
              /\ response.body.total = response.body.successful + response.body.failed
              /\ response.body.failed =
                   Cardinality({i \in 1..Len(files) : response.body.results[i].error /= None})

(* a batch answered with two items: the first file failed and the second
   was analysed *)
C25_Witness ==
  /\ response.done /\ response.endpoint = "/batch-analyze" /\ response.status = 200
  /\ Len(files) = 2
  /\ FileFails(files[1]) /\ ~FileFails(files[2])
  /\ response.body.results[1].error /= None
  /\ response.body.results[2].error = None
  /\ response.body.successful = 1 /\ response.body.failed = 1

(* a batch of 51 files was rejected *)
C25_WitnessRejected ==
  /\ response.done /\ response.endpoint = "/batch-analyze"
  /\ Len(files) = 51 /\ response.status = 400 /\ results = <<>>

(* the flag of a response or of a batch item follows its score, in tenths *)
FlagFollowsScore(r) ==
  /\ r.suspicious <=> r.score >= 950
  /\ r.suspicious_reason /= None <=> r.suspicious

(* C26: in the responses of /analyze and /analyze-file and in the items of
   a batch response, suspicious is true exactly when the analysis score is
   at least 95.0, and suspicious_reason is not null exactly when suspicious
   is true *)
C26_Suspicious ==
  /\ (response.done /\ response.status = 200 /\ response.endpoint \in {"/analyze", "/analyze-file"})
       => FlagFollowsScore(response.body)
  /\ (response.done /\ response.status = 200 /\ response.endpoint = "/batch-analyze")
       => \A i \in 1..Len(response.body.results) : FlagFollowsScore(response.body.results[i])
  /\ \A i \in 1..Len(results) : FlagFollowsScore(results[i])

(* a batch response with an item flagged at a score of 95.0 or more, and an
   analysed item below 95.0 that is not flagged *)
C26_Witness ==
  /\ response.done /\ response.status = 200 /\ response.endpoint = "/batch-analyze"
  /\ \E i, j \in 1..Len(response.body.results) :
       /\ response.body.results[i].score >= 950
       /\ response.body.results[i].suspicious
       /\ response.body.results[i].suspicious_reason /= None
       /\ response.body.results[j].error = None
       /\ response.body.results[j].score > 0
       /\ response.body.results[j].score < 950
       /\ ~response.body.results[j].suspicious

(* the last analyze_text call found every skill of a job description that
   has at least one *)
AllSkillsFound ==
  /\ call.done
  /\ call.jd_skills /= {}
  /\ call.jd_skills \subseteq call.resume_skills

(* the item of the batch that was analysed last *)
LastAnalysed(items) ==
  items[CHOOSE i \in 1..Len(items) :
          /\ items[i].error = None
          /\ \A j \in (i + 1)..Len(items) : items[j].error /= None]

(* C27: whenever the job description has at least one recognisable skill
   and all its skills are found in the resume (matchRatio = 1.0), the match
   score is at least 95 and the API response is flagged suspicious,
   whatever the lexical overlap *)
C27_FullMatchSuspicious ==
  AllSkillsFound =>
    /\ call.match_ratio = RInt(1)
    /\ RGe(call.score, RInt(95))
    /\ (response.done /\ response.endpoint \in {"/analyze", "/analyze-file"}) =>
         /\ response.status = 200
         /\ response.body.score >= 950
         /\ response.body.suspicious
    /\ results /= <<>> =>
         /\ LastAnalysed(results).score >= 950
         /\ LastAnalysed(results).suspicious

(* every skill of the job description found by a resume that shares none
   of its words: the score is 95.0 exactly and the response is flagged *)
C27_Witness ==
  /\ AllSkillsFound
  /\ call.resume_words \cap call.jd_words = {}
  /\ call.word_bonus = RInt(0)
  /\ response.done /\ response.status = 200
  /\ response.endpoint = "/analyze"
  /\ response.body.score = 950
  /\ response.body.suspicious

(* the list l turned round and from each of its places onward *)
Orderings(l) == {Reverse(l)} \cup {Rotate(l, k) : k \in 0..(Len(l) - 1)}

(* C28: ATSScorer.score is independent of the order of skills_found: for
   any two orderings of the same set of found skills (with the same resume
   text, job text and missing keywords), the Keyword Optimization score and
   the overall_score are identical *)
C28_OrderIndependent ==
  (phase = "scored" /\ ats_score /= NoCall) =>
    \A other \in Orderings(result.skills_found) :
      \E again \in {ATSScorer_score(resume_text, job_description, other, result.missing_keywords)} :
        /\ again.categories[3].score = ats_score.categories[3].score
        /\ again.overall_score = ats_score.overall_score

(* the Keyword Optimization category holds a skills_section check that
   passed *)
KeywordsSkillsSection ==
  \E k \in DOMAIN ats_score.categories[3].checks :
    /\ ats_score.categories[3].checks[k].name = "skills_section"
    /\ ats_score.categories[3].checks[k].passed

(* the Section Structure category found the skills section: its
   required_sections check passed or does not name Skills as missing *)
SectionsSkillsSection ==
  \E k \in DOMAIN ats_score.categories[2].checks :
    /\ ats_score.categories[2].checks[k].name = "required_sections"
    /\ \/ ats_score.categories[2].checks[k].passed
       \/ \A m \in DOMAIN ats_score.categories[2].checks[k].message.texts :
            ats_score.categories[2].checks[k].message.texts[m] /= <<"S","k","i","l","l","s">>

(* C29: the two skills-section detections agree: the Keyword Optimization
   skills_section check passes (+5) if and only if the Section Structure
   category detected the skills section for the same resume text *)
C29_SkillsDetectionsAgree ==
  (phase = "scored" /\ ats_score /= NoCall) => (KeywordsSkillsSection <=> SectionsSkillsSection)

(* the checks of category c that are critical and did not pass *)
FailedCritical(c) ==
  SelectSeq(ats_score.categories[c].checks, LAMBDA check : check.severity = "critical" /\ ~check.passed)

(* C30: across the five categories at most 5 checks are both critical and
   failed, at most one per category (length, required_sections,
   keyword_match, email, dates), so the truncation of critical_issues to 5
   entries drops no failed critical message *)
C30_CriticalFits ==
  ats_score /= NoCall =>
    /\ \A c \in 1..5 :
         /\ Len(FailedCritical(c)) <= 1
         /\ \A k \in 1..Len(FailedCritical(c)) :
              FailedCritical(c)[k].name =
                <<"length", "required_sections", "keyword_match", "email", "dates">>[c]
    /\ Len(FailedCritical(1)) + Len(FailedCritical(2)) + Len(FailedCritical(3)) +
       Len(FailedCritical(4)) + Len(FailedCritical(5)) <= 5
    /\ Len(ats_score.critical_issues) =
         Len(FailedCritical(1)) + Len(FailedCritical(2)) + Len(FailedCritical(3)) +
         Len(FailedCritical(4)) + Len(FailedCritical(5))
    /\ \A c \in 1..5 : \A k \in 1..Len(FailedCritical(c)) :
         \E i \in 1..Len(ats_score.critical_issues) :
           ats_score.critical_issues[i] = FailedCritical(c)[k].message

(* a resume that fails the critical check of every category: all five
   messages are in critical_issues *)
C30_Witness ==
  /\ ats_score /= NoCall
  /\ resume_text /= <<>>
  /\ \A c \in 1..5 : Len(FailedCritical(c)) = 1
  /\ Len(ats_score.critical_issues) = 5
====
